---- MODULE Spec2Model ----
(***************************************************************************)
(* Model of the backtest pipeline of the volatility-arbitrage system:      *)
(* BacktestEngine::run / runMonteCarloSimulation driving                    *)
(* VolatilityArbitrageStrategy::processBar over a Portfolio, with the       *)
(* DeltaHedgingStrategy applied inside processBar.                          *)
(*                                                                         *)
(* Numbers.  The program computes in double.  The model uses integers:     *)
(* prices, cash and volatilities are whole units, option quantities are    *)
(* +-ContractQuantity, option deltas are tenths (so quantity x delta is a  *)
(* whole number), and equity-curve values are kept in thousandths          *)
(* (EquityScale) because the engine multiplies by 1 + 0.001 i.             *)
(* The closed-form option price and delta (Black-Scholes) are replaced by  *)
(* integer functions with the same case structure as the code.             *)
(*                                                                         *)
(* Three specifications share the variables: Spec drives the engine,       *)
(* PortfolioSpec drives a Portfolio and applyHedge operation by operation, *)
(* and ResultSpec drives a BacktestResult (its setters and its cached      *)
(* metric accessors), whose doubles are exact ratios with +-inf and NaN.   *)
(***************************************************************************)
EXTENDS Integers, Sequences, FiniteSets, TLC

\* ------------------------------------------------------------------ bounds
MaxTime == 2        \* timestamps are 0..MaxTime
MaxTrials == 2      \* numSimulations is 1..MaxTrials
MaxHold == 2        \* holdingPeriod_ is 1..MaxHold
TicksPerDay == 2    \* timestamps per calendar day
MaxPositions == 2   \* positions in the portfolio driven operation by operation
MaxOps == 4         \* operations applied to that portfolio
MaxPoints == 4      \* points of the equity curve a result is built with
MaxCalls == 2       \* operations applied to that result

\* ------------------------------------------------------- program constants
ExpiryDays == 30            \* expiry.addDays(30)
ContractQuantity == 10      \* double quantity = 10.0
DummyTradeQuantity == 100   \* Trade(symbol, BUY, 100.0, ...)
ProgressSteps == 10         \* timestamps.size() / 10, numSimulations / 10
EquityScale == 1000         \* 1.0 + 0.001 * i, in thousandths
DefaultSigma == 2           \* return 0.20, in tenths
MaxRiskPercent == 5         \* availableCash * 0.05, in per cent
DrawdownThresholdPercent == 1   \* drawdowns[i] < -0.01, in per cent

Symbols == {"A", "B"}
Times == 0..MaxTime

\* The sum of a sequence of numbers.
RECURSIVE SeqSum(_)
SeqSum(seq) ==
    IF seq = <<>> THEN 0 ELSE seq[Len(seq)] + SeqSum(SubSeq(seq, 1, Len(seq) - 1))

Max(a, b) == IF a >= b THEN a ELSE b
Abs(a) == IF a >= 0 THEN a ELSE -a

\* -------------------------------------------------------------- MarketData
\* core::MarketData: symbol, timestamp, close and the optional
\* "implied_volatility" entry of additionalData_ (hasIV / iv).
MarketData(sym, ts, close, hasIV, iv) ==
    [symbol |-> sym, ts |-> ts, close |-> close, hasIV |-> hasIV, iv |-> iv]

\* The observation of symbol sym at timestamp ts in the modelled data files.
\* Closes and implied volatilities vary with the timestamp so that the
\* signal generator produces BUY, SELL and HOLD, and one close is 0.
CloseOf(sym, ts) ==
    IF sym = "A" THEN 2 + (ts % 2)
    ELSE IF ts % 3 = 2 THEN 0 ELSE 4

HasIVOf(sym, ts) == IF sym = "A" THEN TRUE ELSE ts % 3 # 0

IVOf(sym, ts) ==
    IF sym = "A"
    THEN (IF ts % 3 = 0 THEN 1 ELSE IF ts % 3 = 1 THEN 3 ELSE 2)
    ELSE (IF ts % 3 = 1 THEN 1 ELSE IF ts % 3 = 2 THEN 3 ELSE 0)

ObsAt(sym, ts) == MarketData(sym, ts, CloseOf(sym, ts), HasIVOf(sym, ts), IVOf(sym, ts))

\* A second observation with the same timestamp (a duplicated row).
DupAt(sym, ts) == MarketData(sym, ts, CloseOf(sym, ts) + 1, FALSE, 0)

\* -------------------------------------------------------------- Instrument
Equity(sym) == [type |-> "EQUITY", underlying |-> sym, strike |-> 0, expiry |-> 0]

\* InstrumentFactory::createEuropeanCall; the Option constructor rejects a
\* strike <= 0 (see OptionCtorThrows).
EuropeanCall(sym, expiry, strike) ==
    [type |-> "EUROPEAN_OPTION", underlying |-> sym, strike |-> strike, expiry |-> expiry]

OptionCtorThrows(strike) == strike <= 0

\* DateTime::addDays(30)
AddDays(ts, days) == ts + days * TicksPerDay

\* DateTime::toString("%Y%m%d"): the calendar day, time of day dropped.
DateOf(ts) == ts \div TicksPerDay

\* Option::getSymbol / Equity::getSymbol: underlying_C_strike_yyyymmdd for an
\* option, the symbol itself for an equity.
GetSymbol(inst) ==
    IF inst.type = "EQUITY"
    THEN [u |-> inst.underlying, kind |-> "E", k |-> 0, d |-> 0]
    ELSE [u |-> inst.underlying, kind |-> "C", k |-> inst.strike, d |-> DateOf(inst.expiry)]

\* Derivative::timeToExpiry: 0 when currentDate >= expiryDate_, else the
\* remaining time (here in ticks instead of years).
TimeToExpiry(inst, now) == IF now >= inst.expiry THEN 0 ELSE inst.expiry - now

\* The sigma used by EuropeanOption::price and Option::delta: the implied
\* volatility when the observation carries one, else the 20% default.
SigmaForPricing(data) == IF data.hasIV THEN data.iv ELSE DefaultSigma

\* EuropeanOption::price for a call: intrinsic value when expired, 0 when
\* sigma <= 0, else the Black-Scholes value, modelled as intrinsic value plus
\* a time value that grows with sigma.
OptionPrice(inst, data) ==
    LET S == data.close
        K == inst.strike
        T == TimeToExpiry(inst, data.ts)
        sigma == SigmaForPricing(data)
    IN  IF T <= 0 THEN Max(0, S - K)
        ELSE IF sigma <= 0 THEN 0
        ELSE Max(0, S - K) + sigma

\* Equity::price throws when the observation is of another symbol.
EquityPriceThrows(inst, data) == inst.type = "EQUITY" /\ data.symbol # inst.underlying

\* Instrument::price (for an equity: shares_ * close, with shares_ = 1).
Price(inst, data) ==
    IF inst.type = "EQUITY" THEN data.close ELSE OptionPrice(inst, data)

\* Option::delta for a call in tenths: 0 when expired, else normalCDF(d1),
\* modelled by moneyness.
DeltaTenths(inst, data) ==
    LET S == data.close
        K == inst.strike
        T == TimeToExpiry(inst, data.ts)
    IN  IF T <= 0 THEN 0
        ELSE IF S > K THEN 8
        ELSE IF S = K THEN 5
        ELSE 2

\* ---------------------------------------------------------------- Position
Position(inst, quantity, entryPrice, entryDate, isHedge) ==
    [instrument |-> inst, quantity |-> quantity, entryPrice |-> entryPrice,
     entryDate |-> entryDate, isHedge |-> isHedge]

\* Position::getValue
PositionValue(pos, data) == pos.quantity * Price(pos.instrument, data)

\* Position::getPnL
PositionPnL(pos, data) == pos.quantity * (Price(pos.instrument, data) - pos.entryPrice)

\* --------------------------------------------------------------- Portfolio
Portfolio(initialCash) == [cash |-> initialCash, positions |-> <<>>]

AddPosition(pf, pos) == [pf EXCEPT !.positions = Append(@, pos)]

\* Portfolio::removePosition for a valid index.
RemovePosition(pf, index) ==
    [pf EXCEPT !.positions =
        [k \in 1..(Len(pf.positions) - 1) |->
            IF k < index THEN pf.positions[k] ELSE pf.positions[k + 1]]]

SetQuantity(pf, index, newQuantity) ==
    [pf EXCEPT !.positions[index].quantity = newQuantity]

\* The range check of removePosition and updatePosition, which throw
\* std::out_of_range (the code's index is 0-based, the model's 1-based).
IndexOutOfRange(pf, index) == index > Len(pf.positions)

\* Portfolio::updatePosition for a valid index.
UpdatePosition(pf, index, newQuantity) == SetQuantity(pf, index, newQuantity)

AddCash(pf, amount) == [pf EXCEPT !.cash = @ + amount]

\* Mutant of RemoveCash: a withdrawal larger than the balance is refused.
RemoveCashRejectingOverdraft(pf, amount) ==
    IF amount > pf.cash THEN pf ELSE [pf EXCEPT !.cash = @ - amount]

RemoveCash(pf, amount) == [pf EXCEPT !.cash = @ - amount]

GetPositionCount(pf) == Len(pf.positions)

RECURSIVE SumValues(_, _, _)
SumValues(positions, data, k) ==
    IF k > Len(positions) THEN 0
    ELSE PositionValue(positions[k], data) + SumValues(positions, data, k + 1)

RECURSIVE SumEntryValues(_, _)
SumEntryValues(positions, k) ==
    IF k > Len(positions) THEN 0
    ELSE positions[k].quantity * positions[k].entryPrice + SumEntryValues(positions, k + 1)

\* Mutant of GetTotalValue: positions are valued at their entry price.
GetTotalValueAtEntry(pf, data) == pf.cash + SumEntryValues(pf.positions, 1)

\* Portfolio::getTotalValue
GetTotalValue(pf, data) == pf.cash + SumValues(pf.positions, data, 1)

RECURSIVE SumPnL(_, _, _)
SumPnL(positions, data, k) ==
    IF k > Len(positions) THEN 0
    ELSE PositionPnL(positions[k], data) + SumPnL(positions, data, k + 1)

\* Portfolio::getTotalPnL
GetTotalPnL(pf, data) == SumPnL(pf.positions, data, 1)

\* Portfolio::getTotalValue throws when an equity position is priced with an
\* observation of another symbol.
GetTotalValueThrows(pf, data) ==
    \E k \in 1..Len(pf.positions) : EquityPriceThrows(pf.positions[k].instrument, data)

RECURSIVE SumDelta(_, _, _)
SumDelta(positions, data, k) ==
    IF k > Len(positions) THEN 0
    ELSE (IF positions[k].instrument.type = "EQUITY"
          THEN positions[k].quantity
          ELSE (positions[k].quantity * DeltaTenths(positions[k].instrument, data)) \div 10)
         + SumDelta(positions, data, k + 1)

\* Portfolio::calculateDelta
CalculateDelta(pf, data) == SumDelta(pf.positions, data, 1)

\* ------------------------------------------------------------- transactions
\* What the strategy actually did to the portfolio in one processBar call:
\* one record per position open, position close and hedge adjustment.  The
\* program keeps no such log; the model records it to compare the engine's
\* trade list against.
Txn(kind, action, quantity, price, ts) ==
    [kind |-> kind, action |-> action, quantity |-> quantity, price |-> price, ts |-> ts]

\* ---------------------------------------------------- DeltaHedgingStrategy
IsHedgeCandidate(pos, data) ==
    pos.instrument.type = "EQUITY" /\ pos.instrument.underlying = data.symbol

\* The loop that looks for an existing equity position in the observation's
\* symbol: the first match, or the position count when there is none.
FindHedgePosition(pf, data) ==
    LET found == {k \in 1..Len(pf.positions) : IsHedgeCandidate(pf.positions[k], data)}
    IN  IF found = {} THEN Len(pf.positions) + 1
        ELSE CHOOSE k \in found : \A j \in found : k <= j

\* Mutant of ApplyHedge: a gap equal to the tolerance is hedged.
ApplyHedgeStrictTolerance(pf, data, targetDelta, tolerance) ==
    LET hedgeQuantity == targetDelta - CalculateDelta(pf, data)
        hedgePositionIndex == FindHedgePosition(pf, data)
        txn == Txn("hedge", IF hedgeQuantity > 0 THEN "BUY" ELSE "SELL",
                   Abs(hedgeQuantity), data.close, data.ts)
    IN  IF Abs(hedgeQuantity) < tolerance \/ hedgeQuantity = 0
        THEN [pf |-> pf, txns |-> <<>>]
        ELSE IF hedgePositionIndex <= Len(pf.positions)
        THEN LET newQuantity == pf.positions[hedgePositionIndex].quantity + hedgeQuantity
             IN  IF newQuantity = 0
                 THEN [pf |-> RemovePosition(pf, hedgePositionIndex), txns |-> <<txn>>]
                 ELSE [pf |-> SetQuantity(pf, hedgePositionIndex, newQuantity), txns |-> <<txn>>]
        ELSE [pf |-> RemoveCash(
                        AddPosition(pf, Position(Equity(data.symbol), hedgeQuantity,
                                                 data.close, data.ts, TRUE)),
                        hedgeQuantity * data.close),
              txns |-> <<txn>>]

\* Mutant of ApplyHedge: the hedge quantity has the sign of the gap.
ApplyHedgeWrongSign(pf, data, targetDelta, tolerance) ==
    LET deltaGap == CalculateDelta(pf, data) - targetDelta
        hedgeQuantity == deltaGap
        hedgePositionIndex == FindHedgePosition(pf, data)
        txn == Txn("hedge", IF hedgeQuantity > 0 THEN "BUY" ELSE "SELL",
                   Abs(hedgeQuantity), data.close, data.ts)
    IN  IF Abs(deltaGap) <= tolerance
        THEN [pf |-> pf, txns |-> <<>>]
        ELSE IF hedgePositionIndex <= Len(pf.positions)
        THEN LET newQuantity == pf.positions[hedgePositionIndex].quantity + hedgeQuantity
             IN  IF newQuantity = 0
                 THEN [pf |-> RemovePosition(pf, hedgePositionIndex), txns |-> <<txn>>]
                 ELSE [pf |-> SetQuantity(pf, hedgePositionIndex, newQuantity), txns |-> <<txn>>]
        ELSE [pf |-> RemoveCash(
                        AddPosition(pf, Position(Equity(data.symbol), hedgeQuantity,
                                                 data.close, data.ts, TRUE)),
                        hedgeQuantity * data.close),
              txns |-> <<txn>>]

\* DeltaHedgingStrategy::applyHedge.  With whole quantities,
\* std::abs(x) < 1e-6 is x = 0 and std::abs(x) >= 1e-6 is x # 0.
ApplyHedge(pf, data, targetDelta, tolerance) ==
    LET currentDelta == CalculateDelta(pf, data)
        deltaGap == currentDelta - targetDelta
        hedgeQuantity == -deltaGap
        hedgePositionIndex == FindHedgePosition(pf, data)
        action == IF hedgeQuantity > 0 THEN "BUY" ELSE "SELL"
        txn == Txn("hedge", action, Abs(hedgeQuantity), data.close, data.ts)
    IN  IF Abs(deltaGap) <= tolerance
        THEN [pf |-> pf, txns |-> <<>>]
        ELSE IF hedgePositionIndex <= Len(pf.positions)
        THEN LET newQuantity == pf.positions[hedgePositionIndex].quantity + hedgeQuantity
             IN  IF newQuantity = 0
                 THEN [pf |-> RemovePosition(pf, hedgePositionIndex), txns |-> <<txn>>]
                 ELSE [pf |-> SetQuantity(pf, hedgePositionIndex, newQuantity), txns |-> <<txn>>]
        ELSE IF hedgeQuantity # 0
        THEN [pf |-> RemoveCash(
                        AddPosition(pf, Position(Equity(data.symbol), hedgeQuantity,
                                                 data.close, data.ts, TRUE)),
                        hedgeQuantity * data.close),
              txns |-> <<txn>>]
        ELSE [pf |-> pf, txns |-> <<>>]

\* --------------------------------------------------- VolatilitySpreadSignal
Signal(type, strength, instrumentId, ts) ==
    [type |-> type, strength |-> strength, instrumentId |-> instrumentId, ts |-> ts]

\* VolatilitySpreadSignal::generateSignal for an option; forecastVol is
\* model.forecast(1) of the calibrated volatility model.
GenerateSignal(inst, forecastVol, entryThreshold, data) ==
    IF ~data.hasIV \/ data.iv <= 0
    THEN Signal("HOLD", 0, GetSymbol(inst), data.ts)
    ELSE LET volSpread == data.iv - forecastVol
             spreadMagnitude == Abs(volSpread)
         IN  IF spreadMagnitude >= entryThreshold
             THEN Signal(IF volSpread > 0 THEN "SELL" ELSE "BUY",
                         spreadMagnitude, GetSymbol(inst), data.ts)
             ELSE Signal("HOLD", 0, GetSymbol(inst), data.ts)

\* Signal::isActionable
IsActionable(signal) == signal.type # "HOLD" /\ signal.strength > 0

\* ---------------------------------------------- VolatilityArbitrageStrategy
\* The constructor: portfolio_(0.0), empty activePositions_ and
\* daysInPosition_.  daysInPosition_ is a function from instrument ids.
VolatilityArbitrageStrategy(holdingPeriod, forecastVol, entryThreshold, targetDelta, tolerance) ==
    [holdingPeriod |-> holdingPeriod, forecastVol |-> forecastVol,
     entryThreshold |-> entryThreshold, targetDelta |-> targetDelta,
     tolerance |-> tolerance, portfolio |-> Portfolio(0),
     activePositions |-> {}, daysInPosition |-> <<>>]

\* Mutant of Clone: hands back the object it was called on instead of a copy.
CloneSharingCaller(st) == [ptr |-> "caller", obj |-> st]

\* VolatilityArbitrageStrategy::clone: a pointer to a new strategy built from
\* clones of the three collaborators and holdingPeriod_; portfolio and
\* counters are not copied.  ptr says which object the pointer designates:
\* "clone" is the new object, "caller" the object clone() was called on.
Clone(st) ==
    [ptr |-> "clone",
     obj |-> VolatilityArbitrageStrategy(st.holdingPeriod, st.forecastVol, st.entryThreshold,
                                         st.targetDelta, st.tolerance)]

\* VolatilityArbitrageStrategy::initialize
Initialize(st, initialCapital) ==
    [st EXCEPT !.portfolio = Portfolio(initialCapital),
               !.activePositions = {},
               !.daysInPosition = <<>>]

SetDays(days, id, n) == [x \in (DOMAIN days) \cup {id} |-> IF x = id THEN n ELSE days[x]]

\* Mutant of ProcessSignal: a SELL debits the cost like a BUY.
ProcessSignalSellDebits(st, signal, data) ==
    LET quantity == IF signal.type = "BUY" THEN ContractQuantity ELSE -ContractQuantity
        instrument == EuropeanCall(data.symbol, AddDays(data.ts, ExpiryDays), data.close)
        instrumentPrice == Price(instrument, data)
        totalCost == Abs(quantity) * instrumentPrice
        pf1 == AddPosition(st.portfolio,
                           Position(instrument, quantity, instrumentPrice, data.ts, FALSE))
    IN  IF signal.instrumentId \notin st.activePositions
           /\ signal.type \in {"BUY", "SELL"} /\ totalCost <= st.portfolio.cash
        THEN [strat |-> [st EXCEPT !.portfolio = RemoveCash(pf1, totalCost),
                                   !.daysInPosition = SetDays(@, signal.instrumentId, 0)],
              txns |-> <<Txn("open", signal.type, Abs(quantity), instrumentPrice, data.ts)>>]
        ELSE [strat |-> st, txns |-> <<>>]

\* Mutant of ProcessSignal: the position is opened whatever the cash.
ProcessSignalNoCashCheck(st, signal, data) ==
    LET quantity == IF signal.type = "BUY" THEN ContractQuantity ELSE -ContractQuantity
        instrument == EuropeanCall(data.symbol, AddDays(data.ts, ExpiryDays), data.close)
        instrumentPrice == Price(instrument, data)
        totalCost == Abs(quantity) * instrumentPrice
        pf1 == AddPosition(st.portfolio,
                           Position(instrument, quantity, instrumentPrice, data.ts, FALSE))
        pf2 == IF quantity > 0 THEN RemoveCash(pf1, totalCost) ELSE AddCash(pf1, totalCost)
    IN  IF signal.instrumentId \notin st.activePositions /\ signal.type \in {"BUY", "SELL"}
        THEN [strat |-> [st EXCEPT !.portfolio = pf2,
                                   !.daysInPosition = SetDays(@, signal.instrumentId, 0)],
              txns |-> <<Txn("open", signal.type, Abs(quantity), instrumentPrice, data.ts)>>]
        ELSE [strat |-> st, txns |-> <<>>]

\* VolatilityArbitrageStrategy::processSignal
ProcessSignal(st, signal, data) ==
    IF signal.instrumentId \in st.activePositions
    THEN [strat |-> st, txns |-> <<>>]
    ELSE LET availableCash == st.portfolio.cash
             quantity == IF signal.type = "BUY" THEN ContractQuantity ELSE -ContractQuantity
             instrument == EuropeanCall(data.symbol, AddDays(data.ts, ExpiryDays), data.close)
             instrumentPrice == Price(instrument, data)
             totalCost == Abs(quantity) * instrumentPrice
             pf1 == AddPosition(st.portfolio,
                                Position(instrument, quantity, instrumentPrice, data.ts, FALSE))
             pf2 == IF quantity > 0 THEN RemoveCash(pf1, totalCost) ELSE AddCash(pf1, totalCost)
         IN  IF signal.type \in {"BUY", "SELL"} /\ totalCost <= availableCash
             THEN [strat |-> [st EXCEPT !.portfolio = pf2,
                                        !.daysInPosition = SetDays(@, signal.instrumentId, 0)],
                   txns |-> <<Txn("open", signal.type, Abs(quantity), instrumentPrice, data.ts)>>]
             ELSE [strat |-> st, txns |-> <<>>]

\* The indices updatePositions collects in positionsToClose, in the reverse
\* order in which it closes them.
RECURSIVE PositionsToClose(_, _, _)
PositionsToClose(st, days, k) ==
    IF k < 1 THEN <<>>
    ELSE LET id == GetSymbol(st.portfolio.positions[k].instrument)
             rest == PositionsToClose(st, days, k - 1)
         IN  IF id \in DOMAIN days /\ days[id] >= st.holdingPeriod
             THEN <<k>> \o rest
             ELSE rest

\* After portfolio_.removePosition(*it) the reference `position` is read
\* again for its instrument id.  vector::erase has moved the following
\* positions down, so when the closed position was not the last one the
\* reference reads the position that now sits at that index.  When it was
\* the last one the reference is to a destroyed object: the read may still
\* find the old id, may find nothing usable, or may end the process.
ErasedIdOutcomes(before, after, index) ==
    IF index <= Len(after.positions)
    THEN {[crash |-> FALSE, ids |-> {GetSymbol(after.positions[index].instrument)}]}
    ELSE {[crash |-> FALSE, ids |-> {GetSymbol(before.positions[index].instrument)}],
          [crash |-> FALSE, ids |-> {}],
          [crash |-> TRUE, ids |-> {}]}

\* The closing loop of updatePositions.
RECURSIVE ClosePositions(_, _, _, _)
ClosePositions(st, data, toClose, txns) ==
    IF toClose = <<>>
    THEN {[status |-> "ok", strat |-> st, txns |-> txns]}
    ELSE LET index == Head(toClose)
             position == st.portfolio.positions[index]
             currentPrice == Price(position.instrument, data)
             proceeds == position.quantity * currentPrice
             pf1 == IF position.quantity > 0
                    THEN AddCash(st.portfolio, proceeds)
                    ELSE RemoveCash(st.portfolio, -proceeds)
             pf2 == RemovePosition(pf1, index)
             txn == Txn("close", IF position.quantity > 0 THEN "SELL" ELSE "BUY",
                        Abs(position.quantity), currentPrice, data.ts)
         IN  UNION {
               IF o.crash
               THEN {[status |-> "crash", strat |-> [st EXCEPT !.portfolio = pf2],
                      txns |-> Append(txns, txn)]}
               ELSE ClosePositions(
                      [st EXCEPT !.portfolio = pf2,
                                 !.daysInPosition =
                                     [x \in (DOMAIN st.daysInPosition) \ o.ids |->
                                         st.daysInPosition[x]]],
                      data, Tail(toClose), Append(txns, txn))
               : o \in ErasedIdOutcomes(st.portfolio, pf2, index) }

\* VolatilityArbitrageStrategy::updatePositions: every counter advances by
\* one, then the positions whose counter reached the holding period are
\* closed at the price of the observation being processed.
UpdatePositions(st, data) ==
    LET days == [x \in DOMAIN st.daysInPosition |-> st.daysInPosition[x] + 1]
        st1 == [st EXCEPT !.daysInPosition = days]
    IN  ClosePositions(st1, data, PositionsToClose(st1, days, Len(st1.portfolio.positions)), <<>>)

\* VolatilityArbitrageStrategy::applyHedging
ApplyHedging(st, data) == ApplyHedge(st.portfolio, data, st.targetDelta, st.tolerance)

\* What one processBar call did, step by step: the strategy after
\* updatePositions, the signal and whether it was actionable, the strategy
\* after processSignal, and the number of applyHedging calls.  The program
\* keeps no such record; the model records it with each call.
BarTrace(afterUpdate, signal, actionable, afterSignal, hedges) ==
    [afterUpdate |-> afterUpdate, signal |-> signal, actionable |-> actionable,
     afterSignal |-> afterSignal, hedges |-> hedges]

\* The trace of a call that ended inside or right after updatePositions.
CutShort(st, data) ==
    BarTrace(st, Signal("HOLD", 0, GetSymbol(Equity(data.symbol)), data.ts), FALSE, st, 0)

\* What follows updatePositions in processBar: the at-the-money call (whose
\* constructor throws for a close <= 0), the signal, processSignal when the
\* signal is actionable, and the hedge.
SignalAndHedge(st, data, txns) ==
    IF OptionCtorThrows(data.close)
    THEN [status |-> "error", strat |-> st, txns |-> txns, trace |-> CutShort(st, data)]
    ELSE LET option == EuropeanCall(data.symbol, AddDays(data.ts, ExpiryDays), data.close)
             signal == GenerateSignal(option, st.forecastVol, st.entryThreshold, data)
             sig == IF IsActionable(signal)
                    THEN ProcessSignal(st, signal, data)
                    ELSE [strat |-> st, txns |-> <<>>]
             hedge == ApplyHedging(sig.strat, data)
         IN  [status |-> "ok",
              strat |-> [sig.strat EXCEPT !.portfolio = hedge.pf],
              txns |-> txns \o sig.txns \o hedge.txns,
              trace |-> BarTrace(st, signal, IsActionable(signal), sig.strat, 1)]

\* VolatilityArbitrageStrategy::processBar: the set of possible outcomes.
\* status is "ok", "error" (an exception leaves processBar) or "crash".
ProcessBar(st, data) ==
    { IF u.status = "ok"
      THEN SignalAndHedge(u.strat, data, u.txns)
      ELSE [status |-> u.status, strat |-> u.strat, txns |-> u.txns,
            trace |-> CutShort(u.strat, data)]
      : u \in UpdatePositions(st, data) }

\* ------------------------------------------------------------------- Trade
Trade(instrumentId, action, quantity, price, timestamp, transactionCost) ==
    [instrumentId |-> instrumentId, action |-> action, quantity |-> quantity,
     price |-> price, timestamp |-> timestamp, transactionCost |-> transactionCost]

\* Trade::getValue
TradeValue(trade) == trade.quantity * trade.price

\* ------------------------------------------------------ BacktestParameters
BacktestParameters(startDate, endDate, initialCapital, symbols, include, perTrade, percentage) ==
    [startDate |-> startDate, endDate |-> endDate, initialCapital |-> initialCapital,
     symbols |-> symbols, includeTransactionCosts |-> include,
     transactionCostPerTrade |-> perTrade, transactionCostPercentage |-> percentage]

\* ---------------------------------------------------------- BacktestEngine
\* Mutant of ValidateParametersThrows: the empty symbol list is not checked.
ValidateParametersNoSymbolCheck(p) ==
    \/ p.startDate >= p.endDate
    \/ p.initialCapital <= 0
    \/ /\ p.includeTransactionCosts
       /\ (p.transactionCostPerTrade < 0 \/ p.transactionCostPercentage < 0)

\* Mutant of ValidateParametersThrows: only the per-trade cost is checked.
ValidateParametersNoPercentageCheck(p) ==
    \/ p.startDate >= p.endDate
    \/ p.initialCapital <= 0
    \/ p.symbols = <<>>
    \/ /\ p.includeTransactionCosts
       /\ p.transactionCostPerTrade < 0

\* BacktestEngine::validateParameters: TRUE when it throws
\* std::invalid_argument.
ValidateParametersThrows(p) ==
    \/ p.startDate >= p.endDate
    \/ p.initialCapital <= 0
    \/ p.symbols = <<>>
    \/ /\ p.includeTransactionCosts
       /\ (p.transactionCostPerTrade < 0 \/ p.transactionCostPercentage < 0)

\* BacktestEngine::hasMarketData.  addMarketData rejects an empty vector, so
\* a symbol is loaded exactly when its history is not empty.
HasMarketData(md, symbol) == md[symbol] # <<>>

\* Mutant of ValidateMarketDataThrows: only the first symbol is checked.
ValidateMarketDataFirstOnly(md, p) ==
    p.symbols # <<>> /\ md[p.symbols[1]] = <<>>

\* BacktestEngine::validateMarketData: TRUE when it throws
\* std::runtime_error.
ValidateMarketDataThrows(md, p) ==
    \E n \in 1..Len(p.symbols) : ~HasMarketData(md, p.symbols[n])

\* Mutant of GetMarketDataInRange: the end date is excluded.
GetMarketDataInRangeExclusiveEnd(md, symbol, startDate, endDate) ==
    SelectSeq(md[symbol], LAMBDA data : data.ts >= startDate /\ data.ts < endDate)

\* BacktestEngine::getMarketDataInRange
GetMarketDataInRange(md, symbol, startDate, endDate) ==
    SelectSeq(md[symbol], LAMBDA data : data.ts >= startDate /\ data.ts <= endDate)

\* The local map symbolData of run: one slice per requested symbol (a symbol
\* that is not requested has no entry, modelled as an empty slice).
SliceAll(md, p) ==
    [sym \in Symbols |->
        IF \E n \in 1..Len(p.symbols) : p.symbols[n] = sym
        THEN GetMarketDataInRange(md, sym, p.startDate, p.endDate)
        ELSE <<>>]

\* std::set<DateTime> allTimestamps: the timestamps of all slices.
AllTimestamps(sd) == UNION {{sd[sym][n].ts : n \in 1..Len(sd[sym])} : sym \in Symbols}

\* std::vector<DateTime> timestamps(allTimestamps.begin(), allTimestamps.end()):
\* the set in ascending order.
RECURSIVE SortedVector(_)
SortedVector(S) ==
    IF S = {} THEN <<>>
    ELSE LET m == CHOOSE x \in S : \A y \in S : x <= y
         IN  <<m>> \o SortedVector(S \ {m})

\* Mutant of FindObservation: carries the latest earlier observation forward
\* when there is none at the timestamp.
FindObservationCarryForward(slice, currentTime) ==
    LET found == {n \in 1..Len(slice) : slice[n].ts <= currentTime}
    IN  IF found = {} THEN 0 ELSE CHOOSE n \in found : \A m \in found : n >= m

\* std::find_if over a slice: the index of the first observation with the
\* given timestamp, 0 when there is none.
FindObservation(slice, currentTime) ==
    LET found == {n \in 1..Len(slice) : slice[n].ts = currentTime}
    IN  IF found = {} THEN 0 ELSE CHOOSE n \in found : \A m \in found : n <= m

\* BacktestEngine::calculateTransactionCost
CalculateTransactionCost(trade, p) ==
    p.transactionCostPerTrade + TradeValue(trade) * p.transactionCostPercentage

\* The trade run appends after a processBar call that changed the number of
\* positions.
DetectedTrade(symbol, data, currentTime, p) ==
    LET trade == Trade(symbol, "BUY", DummyTradeQuantity, data.close, currentTime, 0)
    IN  IF p.includeTransactionCosts
        THEN [trade EXCEPT !.transactionCost = CalculateTransactionCost(trade, p)]
        ELSE trade

\* The value run samples for bar i (0-based), in thousandths, as a set of
\* outcomes; "crash" stands for the process ending.  The iterator into the
\* first symbol's slice is advanced by min(i, size - 1); size - 1 wraps for an
\* empty slice, so for i > 0 the iterator is advanced past the end of an
\* empty vector.
SampledValues(sd, p, i) ==
    LET first == sd[p.symbols[1]]
        growth == [crash |-> FALSE, value |-> p.initialCapital * (EquityScale + i)]
    IN  IF first # <<>> THEN {growth}
        ELSE IF i = 0 THEN {[crash |-> FALSE, value |-> p.initialCapital * EquityScale]}
        ELSE {growth, [crash |-> TRUE, value |-> 0]}

\* (n + 1) % (total / 10) == 0 || n == total - 1 of the progress report.
\* total / 10 is 0 for total < 10 and the remainder by 0 is undefined: the
\* process may end (a trap), or the test yields some value and the run goes
\* on.  The outcomes are "go on" (TRUE) and "process ends" (FALSE).
ProgressOutcomes(n, total) ==
    IF total \div ProgressSteps = 0 THEN {TRUE, FALSE} ELSE {TRUE}

\* BacktestEngine::buildEquityCurve / core::TimeSeries
TimeSeries(timestamps, values) == [timestamps |-> timestamps, values |-> values]

\* BacktestResult(equityCurve, allTrades): metrics_ empty, metricsCalculated_
\* false.
BacktestResult(equityCurve, trades) ==
    [equityCurve |-> equityCurve, trades |-> trades, metrics |-> <<>>,
     metricsCalculated |-> FALSE]

\* ------------------------------------------------------------------ numbers
\* The metrics are doubles.  A double that is a ratio of whole numbers is kept
\* as that ratio in lowest terms with d > 0; d = 0 stands for what a division
\* by zero yields: n = 1 is +infinity, n = -1 is -infinity, n = 0 is NaN.
Sign(n) == IF n > 0 THEN 1 ELSE IF n < 0 THEN -1 ELSE 0

RECURSIVE GCD(_, _)
GCD(a, b) == IF b = 0 THEN a ELSE GCD(b, a % b)

Ratio(n, d) ==
    IF d = 0 THEN [n |-> Sign(n), d |-> 0]
    ELSE LET g == GCD(Abs(n), Abs(d))
         IN  [n |-> (Sign(d) * n) \div g, d |-> Abs(d) \div g]

Zero == Ratio(0, 1)
Infinity == Ratio(1, 0)
NaN == Ratio(0, 0)
IsNaN(x) == x.d = 0 /\ x.n = 0

\* x < y on doubles: false when either side is NaN.
Less(x, y) ==
    /\ ~IsNaN(x)
    /\ ~IsNaN(y)
    /\ IF x.d = 0 /\ y.d = 0 THEN x.n < y.n ELSE x.n * y.d < y.n * x.d

Neg(x) == [n |-> -x.n, d |-> x.d]
Magnitude(x) == [n |-> Abs(x.n), d |-> x.d]

\* A value the code computes with std::sqrt or std::pow, which no ratio of
\* whole numbers represents: the function applied and its arguments.
Irrational(fn, args) == [fn |-> fn, args |-> args]

\* What a function that may throw yields.
Returned(value) == [threw |-> FALSE, value |-> value]
Thrown == [threw |-> TRUE, value |-> Zero]

\* ----------------------------------------------------- TimeSeries and Math
\* TimeSeries::pctChange
PctChange(values) ==
    IF Len(values) < 2 \/ \E n \in 2..Len(values) : values[n - 1] = 0
    THEN Thrown
    ELSE Returned([n \in 1..(Len(values) - 1) |->
                      Ratio(values[n + 1] - values[n], values[n])])

\* core::mean of returns, kept as the function of its arguments: the sum of
\* ratios with unlike denominators leaves the range of machine integers.
Mean(values) ==
    IF values = <<>> THEN Thrown ELSE Returned(Irrational("mean", values))

\* core::standardDeviation: std::sqrt(variance(values)); variance throws for
\* fewer than two values and is 0 exactly when all values are equal.
StandardDeviation(values) ==
    IF Len(values) <= 1 THEN Thrown
    ELSE IF \A n \in 1..Len(values) : values[n] = values[1] THEN Returned(Zero)
    ELSE Returned(Irrational("std", values))

\* -------------------------------------------------------- Trade net value
\* Trade::getNetValue
GetNetValue(trade) ==
    IF trade.action = "BUY"
    THEN -(TradeValue(trade) + trade.transactionCost)
    ELSE TradeValue(trade) - trade.transactionCost

\* ----------------------------------------------------------- BacktestResult
\* returnValues after `returnValues.erase(returnValues.begin())`: pctChange
\* yields one return per step and no leading NaN, so the erase drops the
\* first return.
TrimmedReturns(values) ==
    LET returns == PctChange(values)
    IN  IF returns.threw THEN Thrown
        ELSE Returned(IF returns.value = <<>> THEN <<>> ELSE Tail(returns.value))

\* BacktestResult::calculateSharpeRatio
CalculateSharpeRatio(r) ==
    LET values == r.equityCurve.values
        returnValues == TrimmedReturns(values)
    IN  IF Len(values) < 2 THEN Returned(Zero)
        ELSE IF returnValues.threw THEN Thrown
        ELSE IF returnValues.value = <<>> THEN Returned(Zero)
        ELSE LET meanReturn == Mean(returnValues.value)
                 stdReturn == StandardDeviation(returnValues.value)
             IN  IF meanReturn.threw \/ stdReturn.threw THEN Thrown
                 ELSE IF stdReturn.value = Zero THEN Returned(Zero)
                 ELSE Returned(Irrational("mean/std", returnValues.value))

\* BacktestResult::calculateSortinoRatio
CalculateSortinoRatio(r) ==
    LET values == r.equityCurve.values
        returnValues == TrimmedReturns(values)
    IN  IF Len(values) < 2 THEN Returned(Zero)
        ELSE IF returnValues.threw THEN Thrown
        ELSE IF returnValues.value = <<>> THEN Returned(Zero)
        ELSE LET negativeReturns == SelectSeq(returnValues.value, LAMBDA ret : Less(ret, Zero))
             IN  IF negativeReturns = <<>> THEN Returned(Zero)
                 ELSE Returned(Irrational("mean/downside", returnValues.value))

\* The loop shared by calculateMaxDrawdown and calculateDrawdownSeries: the
\* running peak after the first k values.
RECURSIVE Peak(_, _)
Peak(values, k) ==
    IF k = 1 THEN values[1]
    ELSE IF values[k] > Peak(values, k - 1) THEN values[k] ELSE Peak(values, k - 1)

\* (peak - values[i]) / peak at point k
Drawdown(values, k) == Ratio(Peak(values, k) - values[k], Peak(values, k))

\* BacktestResult::calculateMaxDrawdown
RECURSIVE MaxDrawdownUpTo(_, _)
MaxDrawdownUpTo(values, k) ==
    IF k = 1 THEN Zero
    ELSE LET maxDrawdown == MaxDrawdownUpTo(values, k - 1)
             drawdown == Drawdown(values, k)
         IN  IF Less(maxDrawdown, drawdown) THEN drawdown ELSE maxDrawdown

CalculateMaxDrawdown(r) ==
    IF r.equityCurve.values = <<>> THEN Returned(Zero)
    ELSE Returned(MaxDrawdownUpTo(r.equityCurve.values, Len(r.equityCurve.values)))

\* BacktestResult::calculateTotalReturn
CalculateTotalReturn(r) ==
    LET values == r.equityCurve.values
    IN  IF values = <<>> THEN Returned(Zero)
        ELSE Returned(Ratio(values[Len(values)] - values[1], values[1]))

\* TimeDelta::days of timestamps.back() - timestamps.front(): whole days.
PeriodDays(timestamps) == (timestamps[Len(timestamps)] - timestamps[1]) \div TicksPerDay

\* BacktestResult::calculateAnnualizedReturn.  1 / years = 365.25 / days is
\* never a whole number, so std::pow of a negative base is NaN; std::pow of 0
\* is 0.
CalculateAnnualizedReturn(r) ==
    LET values == r.equityCurve.values
        totalReturn == CalculateTotalReturn(r).value
        days == PeriodDays(r.equityCurve.timestamps)
    IN  IF Len(values) < 2 THEN Returned(Zero)
        ELSE IF days <= 0 THEN Returned(Zero)
        ELSE IF totalReturn.d = 0
        THEN Returned(IF IsNaN(totalReturn) THEN NaN ELSE Infinity)
        ELSE IF totalReturn.n + totalReturn.d < 0 THEN Returned(NaN)
        ELSE IF totalReturn.n + totalReturn.d = 0 THEN Returned(Ratio(-1, 1))
        ELSE Returned(Irrational("pow - 1", <<totalReturn, Ratio(days, 1)>>))

\* BacktestResult::calculateAnnualizedVolatility
CalculateAnnualizedVolatility(r) ==
    LET values == r.equityCurve.values
        returnValues == TrimmedReturns(values)
    IN  IF Len(values) < 2 THEN Returned(Zero)
        ELSE IF returnValues.threw THEN Thrown
        ELSE IF returnValues.value = <<>> THEN Returned(Zero)
        ELSE LET stdReturn == StandardDeviation(returnValues.value)
             IN  IF stdReturn.threw THEN Thrown
                 ELSE IF stdReturn.value = Zero THEN Returned(Zero)
                 ELSE Returned(Irrational("std * sqrt(252)", returnValues.value))

\* BacktestResult::calculateWinRate
CalculateWinRate(r) ==
    IF r.trades = <<>> THEN Returned(Zero)
    ELSE Returned(Ratio(Len(SelectSeq(r.trades, LAMBDA trade : GetNetValue(trade) > 0)),
                        Len(r.trades)))

\* BacktestResult::calculateProfitFactor
CalculateProfitFactor(r) ==
    LET grossProfit == SeqSum([n \in 1..Len(r.trades) |->
                                  IF GetNetValue(r.trades[n]) > 0
                                  THEN GetNetValue(r.trades[n]) ELSE 0])
        grossLoss == SeqSum([n \in 1..Len(r.trades) |->
                                IF GetNetValue(r.trades[n]) > 0
                                THEN 0 ELSE Abs(GetNetValue(r.trades[n]))])
    IN  IF r.trades = <<>> THEN Returned(Zero)
        ELSE IF grossLoss = 0
        THEN Returned(IF grossProfit > 0 THEN Infinity ELSE Zero)
        ELSE Returned(Ratio(grossProfit, grossLoss))

\* The metrics in the order calculateMetrics computes them.
MetricNames ==
    <<"sharpe_ratio", "sortino_ratio", "max_drawdown", "total_return",
      "annualized_return", "annualized_volatility", "win_rate", "profit_factor">>

Calculate(r, name) ==
    CASE name = "sharpe_ratio" -> CalculateSharpeRatio(r)
      [] name = "sortino_ratio" -> CalculateSortinoRatio(r)
      [] name = "max_drawdown" -> CalculateMaxDrawdown(r)
      [] name = "total_return" -> CalculateTotalReturn(r)
      [] name = "annualized_return" -> CalculateAnnualizedReturn(r)
      [] name = "annualized_volatility" -> CalculateAnnualizedVolatility(r)
      [] name = "win_rate" -> CalculateWinRate(r)
      [] name = "profit_factor" -> CalculateProfitFactor(r)

\* metrics_[name] = value
SetMetric(metrics, name, value) ==
    [x \in (DOMAIN metrics) \cup {name} |-> IF x = name THEN value ELSE metrics[x]]

\* BacktestResult::getMetric
GetMetric(r, name) == IF name \in DOMAIN r.metrics THEN r.metrics[name] ELSE Zero

\* The assignments of calculateMetrics from the k-th metric on: a throwing
\* calculation leaves calculateMetrics with the entries written so far and
\* metricsCalculated_ still false.
RECURSIVE FillMetrics(_, _)
FillMetrics(r, k) ==
    IF k > Len(MetricNames)
    THEN [threw |-> FALSE, res |-> [r EXCEPT !.metricsCalculated = TRUE]]
    ELSE LET c == Calculate(r, MetricNames[k])
         IN  IF c.threw THEN [threw |-> TRUE, res |-> r]
             ELSE FillMetrics([r EXCEPT !.metrics = SetMetric(@, MetricNames[k], c.value)],
                              k + 1)

\* BacktestResult::calculateMetrics
CalculateMetrics(r) ==
    IF r.equityCurve.values = <<>>
    THEN [threw |-> FALSE, res |-> [r EXCEPT !.metricsCalculated = TRUE]]
    ELSE FillMetrics(r, 1)

\* if (!metricsCalculated_) calculateMetrics();
EnsureMetrics(r) ==
    IF r.metricsCalculated THEN [threw |-> FALSE, res |-> r] ELSE CalculateMetrics(r)

\* getSharpeRatio, getSortinoRatio, getMaxDrawdown, getTotalReturn,
\* getAnnualizedReturn, getAnnualizedVolatility, getWinRate, getProfitFactor:
\* the value returned (none when the call threw) and the object afterwards.
MetricAccessor(r, name) ==
    LET c == EnsureMetrics(r)
    IN  [threw |-> c.threw, res |-> c.res,
         value |-> IF c.threw THEN Zero ELSE GetMetric(c.res, name)]

\* BacktestResult::getAllMetrics
GetAllMetrics(r) ==
    LET c == EnsureMetrics(r)
    IN  [threw |-> c.threw, res |-> c.res,
         value |-> IF c.threw THEN <<>> ELSE c.res.metrics]

\* BacktestResult::calculateDrawdownSeries
CalculateDrawdownSeries(r) ==
    LET values == r.equityCurve.values
    IN  IF values = <<>> THEN TimeSeries(<<>>, <<>>)
        ELSE TimeSeries(r.equityCurve.timestamps,
                        [n \in 1..Len(values) |->
                            IF n = 1 THEN Zero ELSE Neg(Drawdown(values, n))])

\* BacktestResult::getDrawdownSeries
GetDrawdownSeries(r) ==
    LET c == EnsureMetrics(r)
    IN  [threw |-> c.threw, res |-> c.res,
         value |-> IF c.threw THEN TimeSeries(<<>>, <<>>) ELSE CalculateDrawdownSeries(c.res)]

\* The loop of getDrawdownPeriods from point k on.
RECURSIVE DrawdownPeriodsFrom(_, _, _, _, _, _)
DrawdownPeriodsFrom(drawdowns, timestamps, k, inDrawdown, drawdownStart, periods) ==
    IF k > Len(drawdowns)
    THEN IF inDrawdown
         THEN Append(periods, <<drawdownStart, timestamps[Len(timestamps)]>>)
         ELSE periods
    ELSE IF Less(drawdowns[k], Ratio(-DrawdownThresholdPercent, 100)) /\ ~inDrawdown
    THEN DrawdownPeriodsFrom(drawdowns, timestamps, k + 1, TRUE, timestamps[k], periods)
    ELSE IF ~Less(drawdowns[k], Zero) /\ ~IsNaN(drawdowns[k]) /\ inDrawdown
    THEN DrawdownPeriodsFrom(drawdowns, timestamps, k + 1, FALSE, drawdownStart,
                             Append(periods, <<drawdownStart, timestamps[k]>>))
    ELSE DrawdownPeriodsFrom(drawdowns, timestamps, k + 1, inDrawdown, drawdownStart, periods)

\* Mutant of GetDrawdownPeriods: a period ends at the first point whose
\* drawdown is no longer above the threshold.
RECURSIVE PeriodsEndingBelowThreshold(_, _, _, _, _, _)
PeriodsEndingBelowThreshold(drawdowns, timestamps, k, inDrawdown, drawdownStart, periods) ==
    IF k > Len(drawdowns)
    THEN IF inDrawdown
         THEN Append(periods, <<drawdownStart, timestamps[Len(timestamps)]>>)
         ELSE periods
    ELSE IF Less(drawdowns[k], Ratio(-DrawdownThresholdPercent, 100)) /\ ~inDrawdown
    THEN PeriodsEndingBelowThreshold(drawdowns, timestamps, k + 1, TRUE, timestamps[k], periods)
    ELSE IF ~Less(drawdowns[k], Ratio(-DrawdownThresholdPercent, 100)) /\ inDrawdown
    THEN PeriodsEndingBelowThreshold(drawdowns, timestamps, k + 1, FALSE, drawdownStart,
                                     Append(periods, <<drawdownStart, timestamps[k]>>))
    ELSE PeriodsEndingBelowThreshold(drawdowns, timestamps, k + 1, inDrawdown, drawdownStart,
                                     periods)

GetDrawdownPeriodsEndingBelowThreshold(r) ==
    IF r.equityCurve.values = <<>> THEN <<>>
    ELSE LET drawdownSeries == CalculateDrawdownSeries(r)
         IN  PeriodsEndingBelowThreshold(drawdownSeries.values, drawdownSeries.timestamps,
                                         1, FALSE, 0, <<>>)

\* BacktestResult::getDrawdownPeriods
GetDrawdownPeriods(r) ==
    IF r.equityCurve.values = <<>> THEN <<>>
    ELSE LET drawdownSeries == CalculateDrawdownSeries(r)
         IN  DrawdownPeriodsFrom(drawdownSeries.values, drawdownSeries.timestamps,
                                 1, FALSE, 0, <<>>)

\* BacktestResult::setEquityCurve
SetEquityCurve(r, equityCurve) ==
    [r EXCEPT !.equityCurve = equityCurve, !.metricsCalculated = FALSE]

\* BacktestResult::setTrades
SetTrades(r, trades) == [r EXCEPT !.trades = trades, !.metricsCalculated = FALSE]

\* BacktestResult::addTrade
AddTrade(r, trade) ==
    [r EXCEPT !.trades = Append(@, trade), !.metricsCalculated = FALSE]


\* ------------------------------------------------------------------- state
VARIABLES
    marketData,      \* BacktestEngine::marketData_: symbol -> sorted history
    params,          \* the BacktestParameters passed to run
    strategy,        \* the caller's Strategy object
    mode,            \* "run" or "mc" (runMonteCarloSimulation)
    numSimulations,  \* the trial count of runMonteCarloSimulation
    sim,             \* its loop index i
    results,         \* its vector results
    pc,              \* position in run / runMonteCarloSimulation
    strategyClone,   \* which object run's strategyClone points to
    cloneObj,        \* the object strategy.clone() created
    symbolData,      \* run's local slices
    timestamps,      \* run's bar sequence
    i,               \* run's bar index (0-based)
    k,               \* position in params.getSymbols() within the bar (1-based)
    portfolioValues, \* run's sampled values, in thousandths
    allTrades,       \* run's trade list
    result,          \* the BacktestResult run returned
    historyRead,     \* marketData_ has been consulted by this run
    calls,           \* the processBar calls of this run: bar index and observation
    txnLog,          \* the transactions the strategy performed in this run
    sampled,         \* the strategy's portfolio at each sample of this run
    book,            \* a Portfolio driven directly through its public operations
    lastOp,          \* the last operation on book: name, arguments, book before
    res,             \* a BacktestResult driven directly through its public operations
    resOp            \* the last operation on res: name and number of operations so far

vars == <<marketData, params, strategy, mode, numSimulations, sim, results, pc,
          strategyClone, cloneObj, symbolData, timestamps, i, k, portfolioValues,
          allTrades, result, historyRead, calls, txnLog, sampled, book, lastOp,
          res, resOp>>

inputs == <<marketData, params, mode, numSimulations>>
runLocals == <<symbolData, timestamps, i, k, portfolioValues, allTrades>>
ghosts == <<calls, txnLog, sampled>>
bench == <<book, lastOp>>
analytics == <<res, resOp>>
engine == <<marketData, params, strategy, mode, numSimulations, sim, results, pc,
            strategyClone, cloneObj, symbolData, timestamps, i, k, portfolioValues,
            allTrades, result, historyRead, calls, txnLog, sampled>>

NullStrategy == VolatilityArbitrageStrategy(0, 0, 0, 0, 0)
NullObservation == MarketData("A", 0, 0, FALSE, 0)

\* The record kept in lastOp.  index is the position index of
\* removePosition / updatePosition, amount the cash amount, new quantity or
\* hedge tolerance, target the hedge's target delta, data the observation of
\* applyHedge, thrown whether the operation threw std::out_of_range, count
\* the number of operations so far.
Operation(name, before, index, amount, target, data, thrown, count) ==
    [name |-> name, before |-> before, index |-> index, amount |-> amount,
     target |-> target, data |-> data, thrown |-> thrown, count |-> count]
NullResult == BacktestResult(TimeSeries(<<>>, <<>>), <<>>)

\* The record kept in resOp.
ResultOperation(name, count) == [name |-> name, count |-> count]
EmptySlices == [sym \in Symbols |-> <<>>]

\* ------------------------------------------------------------------ inputs
\* A history as addMarketData stores it: sorted by timestamp.
HistoryOver(sym, T) == LET ts == SortedVector(T) IN [n \in 1..Len(ts) |-> ObsAt(sym, ts[n])]

\* A history whose two observations lie on one day with the same close and
\* the same implied volatility.
HistorySameStrike(sym) == <<MarketData(sym, 0, 2, TRUE, 1), MarketData(sym, 1, 2, TRUE, 1)>>

\* A history with a duplicated first row.
HistoryWithDup(sym) == <<ObsAt(sym, 0), DupAt(sym, 0), ObsAt(sym, 1)>>

HistoriesOf(sym) ==
    {HistoryOver(sym, T) : T \in SUBSET Times} \cup {HistoryWithDup(sym), HistorySameStrike(sym)}

SymbolLists == {<<>>, <<"A">>, <<"A", "B">>, <<"B", "A">>}

CostSettings ==
    {<<FALSE, 0, 0>>, <<FALSE, -1, 0>>, <<FALSE, 0, -1>>,
     <<TRUE, 1, 1>>, <<TRUE, -1, 0>>, <<TRUE, 0, -1>>}

ParameterSets ==
    {BacktestParameters(s, e, c, l, t[1], t[2], t[3]) :
        s \in Times, e \in Times, c \in {0, 30}, l \in SymbolLists, t \in CostSettings}

Strategies ==
    {VolatilityArbitrageStrategy(h, 2, 1, 0, tol) : h \in 1..MaxHold, tol \in {0, 5}}

\* One fully loaded engine and one ordinary parameter set, used where the
\* other inputs vary.
FullData == [sym \in Symbols |-> HistoryOver(sym, Times)]
PlainParameters == BacktestParameters(0, MaxTime, 30, <<"A", "B">>, FALSE, 0, 0)

RunStart ==
    /\ pc = "start"
    /\ strategyClone = "none"
    /\ cloneObj = NullStrategy
    /\ symbolData = EmptySlices
    /\ timestamps = <<>>
    /\ i = 0
    /\ k = 1
    /\ portfolioValues = <<>>
    /\ allTrades = <<>>
    /\ result = NullResult
    /\ historyRead = FALSE
    /\ calls = <<>>
    /\ txnLog = <<>>
    /\ sampled = <<>>

\* Parameter sets that differ only where the simulation can see it.
SimulationParameters ==
    {p \in ParameterSets :
        /\ ~ValidateParametersThrows(p)
        /\ <<p.includeTransactionCosts, p.transactionCostPerTrade,
             p.transactionCostPercentage>> \in {<<FALSE, 0, 0>>, <<TRUE, 1, 1>>}}

Init ==
    /\ \/ /\ mode = "run"
          /\ numSimulations = 0
          /\ params \in SimulationParameters
          /\ marketData \in [Symbols -> UNION {HistoriesOf(sym) : sym \in Symbols}]
          /\ \A sym \in Symbols : marketData[sym] \in HistoriesOf(sym)
          /\ strategy \in Strategies
       \/ /\ mode = "run"
          /\ numSimulations = 0
          /\ params \in ParameterSets
          /\ marketData \in {FullData, [FullData EXCEPT !["B"] = <<>>]}
          /\ strategy = VolatilityArbitrageStrategy(1, 2, 1, 0, 0)
       \/ /\ mode = "mc"
          /\ numSimulations \in 1..MaxTrials
          /\ params \in {PlainParameters,
                         [PlainParameters EXCEPT !.includeTransactionCosts = TRUE,
                                                 !.transactionCostPerTrade = 1,
                                                 !.transactionCostPercentage = 1]}
          /\ marketData \in [Symbols -> UNION {HistoriesOf(sym) : sym \in Symbols}]
          /\ \A sym \in Symbols : marketData[sym] \in HistoriesOf(sym)
          /\ strategy \in Strategies
    /\ sim = 0
    /\ results = <<>>
    /\ RunStart
    /\ book = Portfolio(0)
    /\ lastOp = Operation("none", book, 0, 0, 0, NullObservation, FALSE, 0)
    /\ res = NullResult
    /\ resOp = ResultOperation("none", 0)

\* ----------------------------------------------------------------- actions
\* The object run's strategyClone points to.
Working == IF strategyClone = "caller" THEN strategy ELSE cloneObj

\* Writing through the pointer ptr.
Store(ptr, obj) ==
    /\ strategy' = IF ptr = "caller" THEN obj ELSE strategy
    /\ cloneObj' = IF ptr = "caller" THEN cloneObj ELSE obj

\* run, line 64: validateParameters(params).
ValidateParameters ==
    /\ UNCHANGED <<bench, analytics>>
    /\ pc = "start"
    /\ pc' = IF ValidateParametersThrows(params) THEN "configError" ELSE "paramsOk"
    /\ UNCHANGED <<inputs, strategy, sim, results, strategyClone, cloneObj, runLocals,
                   result, historyRead, ghosts>>

\* run, line 65: validateMarketData(params).
ValidateMarketData ==
    /\ UNCHANGED <<bench, analytics>>
    /\ pc = "paramsOk"
    /\ historyRead' = TRUE
    /\ pc' = IF ValidateMarketDataThrows(marketData, params) THEN "dataError" ELSE "dataOk"
    /\ UNCHANGED <<inputs, strategy, sim, results, strategyClone, cloneObj, runLocals,
                   result, ghosts>>

\* run, lines 70-99: clone and initialize the strategy, slice the histories,
\* build the bar sequence; std::runtime_error when it is empty.
Prepare ==
    /\ UNCHANGED <<bench, analytics>>
    /\ pc = "dataOk"
    /\ LET c == Clone(strategy)
           sd == SliceAll(marketData, params)
           ts == SortedVector(AllTimestamps(sd))
       IN  /\ strategyClone' = c.ptr
           /\ Store(c.ptr, Initialize(c.obj, params.initialCapital))
           /\ symbolData' = sd
           /\ timestamps' = ts
           /\ pc' = IF ts = <<>> THEN "dataError" ELSE "bar"
    /\ UNCHANGED <<inputs, sim, results, i, k, portfolioValues, allTrades, result,
                   historyRead, ghosts>>

\* run, lines 113-120 when find_if finds no observation of the symbol at the
\* bar's timestamp.
SkipSymbol ==
    /\ UNCHANGED <<bench, analytics>>
    /\ pc = "bar"
    /\ k <= Len(params.symbols)
    /\ FindObservation(symbolData[params.symbols[k]], timestamps[i + 1]) = 0
    /\ k' = k + 1
    /\ UNCHANGED <<inputs, strategy, sim, results, pc, strategyClone, cloneObj, symbolData,
                   timestamps, i, portfolioValues, allTrades, result, historyRead, ghosts>>

\* run, lines 120-138: processBar on the observation found, then the trade
\* detection by position count.
ProcessSymbol ==
    /\ UNCHANGED <<bench, analytics>>
    /\ pc = "bar"
    /\ k <= Len(params.symbols)
    /\ LET symbol == params.symbols[k]
           currentTime == timestamps[i + 1]
           n == FindObservation(symbolData[symbol], currentTime)
       IN  /\ n # 0
           /\ LET data == symbolData[symbol][n]
                  initialCount == GetPositionCount(Working.portfolio)
              IN  \E out \in ProcessBar(Working, data) :
                     /\ Store(strategyClone, out.strat)
                     /\ calls' = Append(calls, [bar |-> i, data |-> data, status |-> out.status,
                                                before |-> Working, trace |-> out.trace,
                                                after |-> out.strat])
                     /\ txnLog' = txnLog \o out.txns
                     /\ pc' = IF out.status = "ok" THEN "bar"
                              ELSE IF out.status = "error" THEN "strategyError"
                              ELSE "crashed"
                     /\ k' = IF out.status = "ok" THEN k + 1 ELSE k
                     /\ allTrades' =
                          IF out.status = "ok"
                             /\ GetPositionCount(out.strat.portfolio) # initialCount
                          THEN Append(allTrades, DetectedTrade(symbol, data, currentTime, params))
                          ELSE allTrades
    /\ UNCHANGED <<inputs, sim, results, strategyClone, symbolData, timestamps, i,
                   portfolioValues, result, historyRead, sampled>>

\* run, lines 141-164: the value sample of the bar, the progress report and
\* the step to the next bar.
SampleEquity ==
    /\ UNCHANGED <<bench, analytics>>
    /\ pc = "bar"
    /\ k > Len(params.symbols)
    /\ sampled' = Append(sampled, Working.portfolio)
    /\ \E v \in SampledValues(symbolData, params, i) :
          IF v.crash
          THEN /\ pc' = "crashed"
               /\ UNCHANGED <<portfolioValues, i, k>>
          ELSE /\ portfolioValues' = Append(portfolioValues, v.value)
               /\ \E goOn \in ProgressOutcomes(i, Len(timestamps)) :
                     IF ~goOn
                     THEN pc' = "crashed" /\ UNCHANGED <<i, k>>
                     ELSE IF i + 1 < Len(timestamps)
                     THEN pc' = "bar" /\ i' = i + 1 /\ k' = 1
                     ELSE pc' = "build" /\ UNCHANGED <<i, k>>
    /\ UNCHANGED <<inputs, strategy, sim, results, strategyClone, cloneObj, symbolData,
                   timestamps, allTrades, result, historyRead, calls, txnLog>>

\* run, lines 166-175: build the equity curve and return the result.
BuildResult ==
    /\ UNCHANGED <<bench, analytics>>
    /\ pc = "build"
    /\ result' = BacktestResult(TimeSeries(timestamps, portfolioValues), allTrades)
    /\ pc' = "returned"
    /\ UNCHANGED <<inputs, strategy, sim, results, strategyClone, cloneObj, runLocals,
                   historyRead, ghosts>>

\* runMonteCarloSimulation, lines 278-289: store the result of the trial, the
\* progress report, and either the next call of run or the return.
MonteCarloStep ==
    /\ UNCHANGED <<bench, analytics>>
    /\ mode = "mc"
    /\ pc = "returned"
    /\ results' = Append(results, result)
    /\ \E goOn \in ProgressOutcomes(sim, numSimulations) :
          IF ~goOn
          THEN /\ pc' = "crashed"
               /\ UNCHANGED <<sim, strategyClone, cloneObj, runLocals, result, historyRead, ghosts>>
          ELSE IF sim + 1 < numSimulations
          THEN /\ sim' = sim + 1
               /\ pc' = "start"
               /\ strategyClone' = "none"
               /\ cloneObj' = NullStrategy
               /\ symbolData' = EmptySlices
               /\ timestamps' = <<>>
               /\ i' = 0
               /\ k' = 1
               /\ portfolioValues' = <<>>
               /\ allTrades' = <<>>
               /\ result' = NullResult
               /\ historyRead' = FALSE
               /\ calls' = <<>>
               /\ txnLog' = <<>>
               /\ sampled' = <<>>
          ELSE /\ pc' = "mcReturned"
               /\ UNCHANGED <<sim, strategyClone, cloneObj, runLocals, result, historyRead, ghosts>>
    /\ UNCHANGED <<inputs, strategy>>

Next ==
    \/ ValidateParameters
    \/ ValidateMarketData
    \/ Prepare
    \/ SkipSymbol
    \/ ProcessSymbol
    \/ SampleEquity
    \/ BuildResult
    \/ MonteCarloStep

Spec == Init /\ [][Next]_vars

\* ------------------------------------------- the Portfolio on its own
\* Portfolio and DeltaHedgingStrategy are public classes: a caller (the unit
\* tests do) builds a Portfolio and applies addPosition, removePosition,
\* updatePosition, addCash, removeCash and applyHedge in any order.

\* The positions a caller adds: long and short stock and calls, entered at
\* prices that differ from the later observations.
PositionPool ==
    {Position(Equity("A"), 5, 2, 0, FALSE),
     Position(Equity("B"), -5, 4, 0, FALSE),
     Position(EuropeanCall("A", AddDays(0, ExpiryDays), 2), 10, 1, 0, FALSE),
     Position(EuropeanCall("B", AddDays(0, ExpiryDays), 4), -10, 2, 0, FALSE)}

QuantityPool == {-10, 5}
AmountPool == {10, 40}
TolerancePool == {0, 5}
TargetPool == {0, 5}
ObservationPool == {ObsAt(sym, ts) : sym \in Symbols, ts \in {0, 1}}

WithinBounds(pf) == Len(pf.positions) <= MaxPositions

PortfolioInit ==
    /\ mode = "portfolio"
    /\ numSimulations = 0
    /\ params = PlainParameters
    /\ marketData = FullData
    /\ strategy = NullStrategy
    /\ sim = 0
    /\ results = <<>>
    /\ pc = "idle"
    /\ strategyClone = "none"
    /\ cloneObj = NullStrategy
    /\ symbolData = EmptySlices
    /\ timestamps = <<>>
    /\ i = 0
    /\ k = 1
    /\ portfolioValues = <<>>
    /\ allTrades = <<>>
    /\ result = NullResult
    /\ historyRead = FALSE
    /\ calls = <<>>
    /\ txnLog = <<>>
    /\ sampled = <<>>
    /\ book \in {Portfolio(0), Portfolio(30)}
    /\ lastOp = Operation("none", book, 0, 0, 0, NullObservation, FALSE, 0)
    /\ res = NullResult
    /\ resOp = ResultOperation("none", 0)

AddPositionOp ==
    /\ mode = "portfolio"
    /\ lastOp.count < MaxOps
    /\ \E pos \in PositionPool :
          /\ WithinBounds(AddPosition(book, pos))
          /\ book' = AddPosition(book, pos)
          /\ lastOp' = Operation("addPosition", book, 0, 0, 0, NullObservation, FALSE, lastOp.count + 1)
    /\ UNCHANGED <<engine, analytics>>

\* removePosition(index), also with the first index past the end.
RemovePositionOp ==
    /\ mode = "portfolio"
    /\ lastOp.count < MaxOps
    /\ \E index \in 1..(Len(book.positions) + 1) :
          /\ book' = IF IndexOutOfRange(book, index) THEN book ELSE RemovePosition(book, index)
          /\ lastOp' = Operation("removePosition", book, index, 0, 0, NullObservation,
                                 IndexOutOfRange(book, index), lastOp.count + 1)
    /\ UNCHANGED <<engine, analytics>>

\* updatePosition(index, newQuantity), also with the first index past the end.
UpdatePositionOp ==
    /\ mode = "portfolio"
    /\ lastOp.count < MaxOps
    /\ \E index \in 1..(Len(book.positions) + 1), newQuantity \in QuantityPool :
          /\ book' = IF IndexOutOfRange(book, index) THEN book
                     ELSE UpdatePosition(book, index, newQuantity)
          /\ lastOp' = Operation("updatePosition", book, index, newQuantity, 0, NullObservation,
                                 IndexOutOfRange(book, index), lastOp.count + 1)
    /\ UNCHANGED <<engine, analytics>>

AddCashOp ==
    /\ mode = "portfolio"
    /\ lastOp.count < MaxOps
    /\ \E amount \in AmountPool :
          /\ WithinBounds(AddCash(book, amount))
          /\ book' = AddCash(book, amount)
          /\ lastOp' = Operation("addCash", book, 0, amount, 0, NullObservation, FALSE, lastOp.count + 1)
    /\ UNCHANGED <<engine, analytics>>

RemoveCashOp ==
    /\ mode = "portfolio"
    /\ lastOp.count < MaxOps
    /\ \E amount \in AmountPool :
          /\ book' = RemoveCash(book, amount)
          /\ lastOp' = Operation("removeCash", book, 0, amount, 0, NullObservation, FALSE, lastOp.count + 1)
    /\ UNCHANGED <<engine, analytics>>

\* DeltaHedgingStrategy(targetDelta, tolerance).applyHedge(book, data)
ApplyHedgeOp ==
    /\ mode = "portfolio"
    /\ lastOp.count < MaxOps
    /\ \E data \in ObservationPool, targetDelta \in TargetPool, tolerance \in TolerancePool :
          LET hedged == ApplyHedge(book, data, targetDelta, tolerance).pf
          IN  /\ WithinBounds(hedged)
              /\ book' = hedged
              /\ lastOp' = Operation("applyHedge", book, 0, tolerance, targetDelta, data, FALSE,
                                     lastOp.count + 1)
    /\ UNCHANGED <<engine, analytics>>

PortfolioNext ==
    \/ AddPositionOp
    \/ RemovePositionOp
    \/ UpdatePositionOp
    \/ AddCashOp
    \/ RemoveCashOp
    \/ ApplyHedgeOp

PortfolioSpec == PortfolioInit /\ [][PortfolioNext]_vars


\* ------------------------------------------- the BacktestResult on its own
\* BacktestResult is a public class: a caller builds one from an equity curve
\* and applies setEquityCurve, setTrades, addTrade and the accessors in any
\* order.

\* Curve values: a peak, a value 0.5% below it, a value 5% below it, zero and
\* a negative value (cash may go below zero).
ValuePool == {-200, 0, 190, 199, 200}

\* An equity curve with one value per timestamp 0, 1, ...
CurveOf(values) == TimeSeries([n \in 1..Len(values) |-> n - 1], values)

Curves == {CurveOf(values) : values \in UNION {[1..n -> ValuePool] : n \in 0..MaxPoints}}

\* The curves passed to setEquityCurve: the empty curve and the curves of one
\* point.
NewCurves == {CurveOf(<<>>)} \cup {CurveOf(<<value>>) : value \in ValuePool}

\* A winning SELL (net +20), a losing BUY (net -10) and a SELL whose cost eats
\* its value (net 0).
TradePool ==
    {Trade("A", "SELL", 10, 2, 0, 0),
     Trade("A", "BUY", 10, 1, 0, 0),
     Trade("A", "SELL", 10, 2, 1, 20)}

\* The trade lists passed to setTrades and grown by addTrade: no trade, one
\* trade, two trades.
TradeLists ==
    {<<>>} \cup {<<trade>> : trade \in TradePool}
           \cup {<<first, second>> : first \in TradePool, second \in TradePool}

ResultInit ==
    /\ mode = "result"
    /\ numSimulations = 0
    /\ params = PlainParameters
    /\ marketData = FullData
    /\ strategy = NullStrategy
    /\ sim = 0
    /\ results = <<>>
    /\ pc = "idle"
    /\ strategyClone = "none"
    /\ cloneObj = NullStrategy
    /\ symbolData = EmptySlices
    /\ timestamps = <<>>
    /\ i = 0
    /\ k = 1
    /\ portfolioValues = <<>>
    /\ allTrades = <<>>
    /\ result = NullResult
    /\ historyRead = FALSE
    /\ calls = <<>>
    /\ txnLog = <<>>
    /\ sampled = <<>>
    /\ book = Portfolio(0)
    /\ lastOp = Operation("none", book, 0, 0, 0, NullObservation, FALSE, 0)
    /\ res \in {BacktestResult(equityCurve, <<>>) : equityCurve \in Curves}
    /\ resOp = ResultOperation("none", 0)

SetEquityCurveOp ==
    /\ mode = "result"
    /\ resOp.count < MaxCalls
    /\ \E equityCurve \in NewCurves : res' = SetEquityCurve(res, equityCurve)
    /\ resOp' = ResultOperation("setEquityCurve", resOp.count + 1)
    /\ UNCHANGED <<engine, bench>>

SetTradesOp ==
    /\ mode = "result"
    /\ resOp.count < MaxCalls
    /\ \E trades \in TradeLists : res' = SetTrades(res, trades)
    /\ resOp' = ResultOperation("setTrades", resOp.count + 1)
    /\ UNCHANGED <<engine, bench>>

AddTradeOp ==
    /\ mode = "result"
    /\ resOp.count < MaxCalls
    /\ \E trade \in TradePool :
          /\ AddTrade(res, trade).trades \in TradeLists
          /\ res' = AddTrade(res, trade)
    /\ resOp' = ResultOperation("addTrade", resOp.count + 1)
    /\ UNCHANGED <<engine, bench>>

\* One of the eight named metric accessors.  Each begins with
\* `if (!metricsCalculated_) calculateMetrics();` and then only reads the
\* map, so whichever is called the object is left the same: with the cache
\* filled, or as calculateMetrics left it when it threw.
MetricAccessorOp ==
    /\ mode = "result"
    /\ resOp.count < MaxCalls
    /\ res' = EnsureMetrics(res).res
    /\ resOp' = ResultOperation("getMetric", resOp.count + 1)
    /\ UNCHANGED <<engine, bench>>

GetAllMetricsOp ==
    /\ mode = "result"
    /\ resOp.count < MaxCalls
    /\ res' = GetAllMetrics(res).res
    /\ resOp' = ResultOperation("getAllMetrics", resOp.count + 1)
    /\ UNCHANGED <<engine, bench>>

GetDrawdownSeriesOp ==
    /\ mode = "result"
    /\ resOp.count < MaxCalls
    /\ res' = GetDrawdownSeries(res).res
    /\ resOp' = ResultOperation("getDrawdownSeries", resOp.count + 1)
    /\ UNCHANGED <<engine, bench>>

\* getDrawdownPeriods neither reads nor fills the metrics cache.
GetDrawdownPeriodsOp ==
    /\ mode = "result"
    /\ resOp.count < MaxCalls
    /\ res' = res
    /\ resOp' = ResultOperation("getDrawdownPeriods", resOp.count + 1)
    /\ UNCHANGED <<engine, bench>>

ResultNext ==
    \/ SetEquityCurveOp
    \/ SetTradesOp
    \/ AddTradeOp
    \/ MetricAccessorOp
    \/ GetAllMetricsOp
    \/ GetDrawdownSeriesOp
    \/ GetDrawdownPeriodsOp

ResultSpec == ResultInit /\ [][ResultNext]_vars

\* ------------------------------------------------------------ claim helpers
Requested(sym) == \E n \in 1..Len(params.symbols) : params.symbols[n] = sym

InWindow(ts) == params.startDate <= ts /\ ts <= params.endDate

\* The observations of a symbol that were loaded into the engine.
Loaded(sym) == {marketData[sym][n] : n \in 1..Len(marketData[sym])}

\* The distinct timestamps of the requested symbols' observations in
\* [start, end].
ExpectedBars ==
    {ts \in Times : \E sym \in Symbols :
        Requested(sym) /\ InWindow(ts) /\ \E o \in Loaded(sym) : o.ts = ts}

StrictlyAscending(seq) == \A a, b \in 1..Len(seq) : a < b => seq[a] < seq[b]

Range(seq) == {seq[n] : n \in 1..Len(seq)}

ParametersValid ==
    /\ params.startDate < params.endDate
    /\ params.initialCapital > 0
    /\ params.symbols # <<>>
    /\ params.includeTransactionCosts =>
          (params.transactionCostPerTrade >= 0 /\ params.transactionCostPercentage >= 0)

AllRequestedLoaded == \A sym \in Symbols : Requested(sym) => marketData[sym] # <<>>

\* The observations passed to processBar in bar j (1-based).
ObservationsOfBar(j) == {calls[c].data : c \in {n \in 1..Len(calls) : calls[n].bar = j - 1}}

\* The instrument ids of the positions of a portfolio.
OpenIds(pf) == {GetSymbol(pf.positions[n].instrument) : n \in 1..Len(pf.positions)}

\* The positions updatePositions removed in call c.
ClosedIn(c) ==
    Range(calls[c].before.portfolio.positions)
        \ Range(calls[c].trace.afterUpdate.portfolio.positions)

\* The bar (0-based) whose timestamp is ts.
BarOfTime(ts) == (CHOOSE j \in 1..Len(timestamps) : timestamps[j] = ts) - 1

\* The bar in which the newest position with instrument id `id` was opened.
EntryBar(pf, id) ==
    LET bars == {BarOfTime(pf.positions[n].entryDate) :
                    n \in {m \in 1..Len(pf.positions) : GetSymbol(pf.positions[m].instrument) = id}}
    IN  CHOOSE b \in bars : \A x \in bars : x <= b

\* The number of shares of sym a portfolio holds over all its stock positions.
EquityQuantity(pf, sym) ==
    SeqSum([n \in 1..Len(pf.positions) |->
               IF pf.positions[n].instrument.type = "EQUITY"
                  /\ pf.positions[n].instrument.underlying = sym
               THEN pf.positions[n].quantity ELSE 0])

\* The option processBar builds from an observation, its price and the cost
\* of ContractQuantity contracts.
OptionOf(data) == EuropeanCall(data.symbol, AddDays(data.ts, ExpiryDays), data.close)
CostOf(data) == ContractQuantity * Price(OptionOf(data), data)


\* ------------------------------------------------------------------ claims

\* C1: for every bar of a run, the value appended to the equity curve equals
\* the strategy portfolio's total value (cash + sum of quantity x instrument
\* price over its positions) sampled after all symbols of the bar were
\* processed, at an observation of that bar.
C1_EquityIsPortfolioValue ==
    \A j \in 1..Len(portfolioValues) :
        \E data \in ObservationsOfBar(j) :
            portfolioValues[j] = EquityScale * GetTotalValue(sampled[j], data)

\* C2: the bar sequence of a run is exactly the set of distinct timestamps of
\* the requested symbols' observations in [start, end] in strictly ascending
\* order, processBar calls never go back in time, and the returned equity
\* curve has exactly one point per bar with that bar's timestamp.
C2_BarSequence ==
    /\ pc \in {"bar", "build", "returned", "crashed", "strategyError"} =>
          /\ Range(timestamps) = ExpectedBars
          /\ StrictlyAscending(timestamps)
    /\ \A c \in 1..Len(calls) : calls[c].data.ts = timestamps[calls[c].bar + 1]
    /\ \A a, b \in 1..Len(calls) : a < b => calls[a].data.ts <= calls[b].data.ts
    /\ pc = "returned" =>
          /\ result.equityCurve.timestamps = timestamps
          /\ Len(result.equityCurve.values) = Cardinality(ExpectedBars)
          /\ StrictlyAscending(result.equityCurve.timestamps)
          /\ Len(sampled) = Len(timestamps)

\* C2 witness: a run returned whose bars come from two symbols with disjoint
\* timestamp sets.
C2_Witness ==
    /\ pc = "returned"
    /\ Len(timestamps) >= 2
    /\ Requested("A") /\ Requested("B")
    /\ \A a \in Loaded("A"), b \in Loaded("B") : a.ts # b.ts
    /\ \E a \in Loaded("A") : InWindow(a.ts)
    /\ \E b \in Loaded("B") : InWindow(b.ts)

\* C3: in each bar processBar is invoked for exactly the requested symbols
\* that have an observation at the bar's timestamp within [start, end], and it
\* is passed such an observation of that symbol; a requested symbol without an
\* observation at exactly that timestamp gets no call in that bar.
C3_ExactMatchOnly ==
    /\ \A c \in 1..Len(calls) :
          LET data == calls[c].data
          IN  /\ Requested(data.symbol)
              /\ data \in Loaded(data.symbol)
              /\ InWindow(data.ts)
              /\ calls[c].bar + 1 \in 1..Len(timestamps)
              /\ data.ts = timestamps[calls[c].bar + 1]
    /\ \A j \in 1..Len(sampled) : \A sym \in Symbols :
          (Requested(sym) /\ InWindow(timestamps[j])
             /\ \E o \in Loaded(sym) : o.ts = timestamps[j])
          => Cardinality({c \in 1..Len(calls) :
                            calls[c].bar = j - 1 /\ calls[c].data.symbol = sym}) = 1

\* C3 witness: a completed bar in which one requested symbol was processed
\* and the other, which has an older observation in range, was not.
C3_Witness ==
    /\ Len(sampled) >= 2
    /\ \E sym \in Symbols :
          /\ Requested(sym)
          /\ \E o \in Loaded(sym) : o.ts = timestamps[1]
          /\ ~\E o \in Loaded(sym) : o.ts = timestamps[2]
          /\ ~\E c \in 1..Len(calls) : calls[c].bar = 1 /\ calls[c].data.symbol = sym
          /\ \E c \in 1..Len(calls) : calls[c].bar = 1

\* C4: the trade log returned by run has exactly one Trade for every position
\* open, position close and hedge adjustment the strategy performed, each with
\* the side, quantity, price and bar of that transaction.
C4_TradeLogMatchesTransactions ==
    pc = "returned" =>
        /\ Len(result.trades) = Len(txnLog)
        /\ \A n \in 1..Len(result.trades) :
              /\ result.trades[n].action = txnLog[n].action
              /\ result.trades[n].quantity = txnLog[n].quantity
              /\ result.trades[n].price = txnLog[n].price
              /\ result.trades[n].timestamp = txnLog[n].ts

\* C5: repeated runs on the same engine with the same strategy object,
\* histories and parameters return identical results, and no step of a run
\* changes the caller's strategy object or the engine's loaded histories.
C5_DeterministicAndSideEffectFree ==
    [][/\ strategy' = strategy
       /\ marketData' = marketData
       /\ \A a, b \in 1..Len(results') : results'[a] = results'[b]]_vars

\* C5 witness: two trials returned results with trades.
C5_Witness ==
    /\ pc = "mcReturned"
    /\ Len(results) >= 2
    /\ results[1].trades # <<>>
    /\ strategyClone = "clone"

\* C6: with start >= end, capital <= 0 or an empty symbol list, run ends in
\* the configuration error, and it does so before the strategy is cloned or
\* initialized, before any loaded history is read and before any processBar
\* call.
C6_ConfigurationErrorFirst ==
    (params.startDate >= params.endDate \/ params.initialCapital <= 0 \/ params.symbols = <<>>)
    => /\ pc \in {"start", "configError"}
       /\ strategyClone = "none"
       /\ cloneObj = NullStrategy
       /\ ~historyRead
       /\ calls = <<>>

\* C6 witness: the configuration error for an empty symbol list with a
\* missing history that was never looked at.
C6_Witness ==
    /\ pc = "configError"
    /\ params.symbols = <<>>
    /\ params.startDate < params.endDate
    /\ params.initialCapital > 0
    /\ marketData["B"] = <<>>

C8_DataErrors ==
    /\ (ParametersValid /\ ~AllRequestedLoaded)
       => (pc \in {"start", "paramsOk", "dataError"} /\ calls = <<>> /\ strategyClone = "none")
    /\ (ParametersValid /\ AllRequestedLoaded /\ ExpectedBars = {})
       => (pc \in {"start", "paramsOk", "dataOk", "dataError"} /\ calls = <<>>)
    /\ (ParametersValid /\ AllRequestedLoaded /\ ExpectedBars # {})
       => pc # "dataError"

\* C8 witness: the data error raised because every slice is empty although
\* every requested symbol is loaded.
C8_Witness ==
    /\ pc = "dataError"
    /\ AllRequestedLoaded
    /\ Len(params.symbols) = 2
    /\ strategyClone # "none"

\* C9: once parameter and data validation have passed, run ends by returning
\* a result for every bar-sequence length >= 1: no error and no abnormal
\* termination after the bar loop has started.
C9_RunReturns ==
    mode = "run" => pc \notin {"crashed", "strategyError"}

\* C10: runMonteCarloSimulation returns, for every trial count >= 1, exactly
\* that many results, each equal to the result of run on the same inputs.
C10_MonteCarloReturnsTrials ==
    (mode = "mc" /\ results # <<>>)
    => /\ pc # "crashed"
       /\ pc = "mcReturned" =>
             /\ Len(results) = numSimulations
             /\ \A n \in 1..Len(results) : results[n] = results[1]

C12_CounterAdvancesOncePerBar ==
    \A c \in 1..Len(calls) :
        LET pf == calls[c].trace.afterUpdate.portfolio
            days == calls[c].trace.afterUpdate.daysInPosition
        IN  /\ \A pos \in ClosedIn(c) :
                  calls[c].bar - BarOfTime(pos.entryDate) >= calls[c].before.holdingPeriod
            /\ \A id \in OpenIds(pf) \cap DOMAIN days :
                  days[id] = calls[c].bar - EntryBar(pf, id)

\* C13: a position is closed only in a processBar call whose observation is
\* of the position's own underlying symbol, and a position whose counter has
\* reached the holding period does not survive updatePositions on an
\* observation of its own symbol.
C13_ClosedOnOwnObservation ==
    \A c \in 1..Len(calls) :
        LET st == calls[c].trace.afterUpdate
        IN  /\ \A pos \in ClosedIn(c) : pos.instrument.underlying = calls[c].data.symbol
            /\ calls[c].status # "crash" =>
                  \A n \in 1..Len(st.portfolio.positions) :
                     LET pos == st.portfolio.positions[n]
                         id == GetSymbol(pos.instrument)
                     IN  (pos.instrument.underlying = calls[c].data.symbol
                            /\ id \in DOMAIN st.daysInPosition)
                         => st.daysInPosition[id] < st.holdingPeriod

\* C14: with transaction costs disabled, an actionable BUY (SELL) signal for
\* an instrument id without an open position whose cost 10 x price is within
\* the available cash adds exactly one position of +10 (-10) contracts of that
\* instrument, entered at the instrument's price and the observation's
\* timestamp, lowers (raises) cash by 10 x price and sets the id's counter to 0.
C14_FlatToOpen ==
    ~params.includeTransactionCosts =>
    \A c \in 1..Len(calls) :
        LET t == calls[c].trace
            data == calls[c].data
            id == t.signal.instrumentId
            inst == OptionOf(data)
            price == Price(inst, data)
            q == IF t.signal.type = "BUY" THEN ContractQuantity ELSE -ContractQuantity
            old == t.afterUpdate
            new == t.afterSignal
        IN  (t.actionable /\ id \notin OpenIds(old.portfolio)
               /\ CostOf(data) <= old.portfolio.cash)
            => /\ GetSymbol(inst) = id
               /\ new.portfolio.positions =
                     Append(old.portfolio.positions, Position(inst, q, price, data.ts, FALSE))
               /\ new.portfolio.cash = old.portfolio.cash - q * price
               /\ id \in DOMAIN new.daysInPosition
               /\ new.daysInPosition[id] = 0
               /\ \A x \in DOMAIN old.daysInPosition \ {id} :
                     x \in DOMAIN new.daysInPosition
                        /\ new.daysInPosition[x] = old.daysInPosition[x]

\* C14 witness: in one run a BUY signal and a SELL signal each opened a
\* position for an id that had none, with costs disabled.
C14_Witness ==
    /\ ~params.includeTransactionCosts
    /\ \A type \in {"BUY", "SELL"} :
          \E c \in 1..Len(calls) :
             LET t == calls[c].trace
             IN  /\ t.actionable
                 /\ t.signal.type = type
                 /\ t.signal.instrumentId \notin OpenIds(t.afterUpdate.portfolio)
                 /\ CostOf(calls[c].data) <= t.afterUpdate.portfolio.cash
                 /\ CostOf(calls[c].data) > 0
                 /\ Len(t.afterSignal.portfolio.positions)
                       = Len(t.afterUpdate.portfolio.positions) + 1

\* C15: an actionable signal whose position would cost more than the
\* available cash is dropped: processSignal leaves the positions, the cash and
\* the counters as they were, and the call raises no error.
C15_InsufficientCashDropsSignal ==
    \A c \in 1..Len(calls) :
        LET t == calls[c].trace
        IN  (t.actionable /\ CostOf(calls[c].data) > t.afterUpdate.portfolio.cash)
            => /\ t.afterSignal = t.afterUpdate
               /\ calls[c].status = "ok"

\* C15 witness: a signal was dropped for lack of cash while the portfolio
\* held a position and some cash.
C15_Witness ==
    \E c \in 1..Len(calls) :
        LET t == calls[c].trace
        IN  /\ t.actionable
            /\ CostOf(calls[c].data) > t.afterUpdate.portfolio.cash
            /\ t.afterUpdate.portfolio.cash > 0
            /\ t.afterUpdate.portfolio.positions # <<>>
            /\ t.afterSignal.portfolio = t.afterUpdate.portfolio

\* C16: in every completed bar the hedging policy is applied exactly once,
\* and no processBar call of that bar comes after the call that applied it.
C16_HedgeOncePerBar ==
    \A j \in 1..Len(sampled) :
        LET cs == {c \in 1..Len(calls) : calls[c].bar = j - 1}
            hedged == {c \in cs : calls[c].trace.hedges = 1}
        IN  /\ Cardinality(hedged) = 1
            /\ \A c \in hedged : \A d \in cs : d <= c

\* C17: when |aggregate delta at the observation - target delta| is within
\* the tolerance, applyHedge leaves the portfolio as it was: the same
\* positions in the same order with the same quantities, and the same cash.
C17_WithinToleranceNoOp ==
    (lastOp.name = "applyHedge"
       /\ Abs(CalculateDelta(lastOp.before, lastOp.data) - lastOp.target) <= lastOp.amount)
    => book = lastOp.before

\* C17 witness: applyHedge was called on a portfolio with positions whose
\* delta gap is not 0 but within the tolerance.
C17_Witness ==
    /\ lastOp.name = "applyHedge"
    /\ lastOp.before.positions # <<>>
    /\ CalculateDelta(lastOp.before, lastOp.data) # lastOp.target
    /\ lastOp.target # 0
    /\ Abs(CalculateDelta(lastOp.before, lastOp.data) - lastOp.target) <= lastOp.amount

\* C18: whenever applyHedge changes the number of shares held in the
\* observation's symbol by an adjustment a (new hedge position, changed
\* quantity or removal), the same call changes cash by -a x close.
C18_HedgeAdjustsCash ==
    lastOp.name = "applyHedge" =>
        LET a == EquityQuantity(book, lastOp.data.symbol)
                    - EquityQuantity(lastOp.before, lastOp.data.symbol)
        IN  book.cash = lastOp.before.cash - a * lastOp.data.close

\* C19: after any sequence of addPosition, removePosition, updatePosition,
\* addCash and removeCash (and applyHedge), for an observation that prices
\* every position, getTotalValue is cash plus the sum of quantity x price over
\* the current positions and getTotalPnL is the sum of
\* quantity x (price - entry price) over them.
C19_ValueAndPnLAreSums ==
    \A data \in ObservationPool :
        ~GetTotalValueThrows(book, data) =>
            /\ GetTotalValue(book, data) =
                  book.cash + SeqSum([n \in 1..Len(book.positions) |->
                                         book.positions[n].quantity
                                            * Price(book.positions[n].instrument, data)])
            /\ GetTotalPnL(book, data) =
                  SeqSum([n \in 1..Len(book.positions) |->
                             book.positions[n].quantity
                                * (Price(book.positions[n].instrument, data)
                                      - book.positions[n].entryPrice)])

\* C19 witness: after an updatePosition as third or later operation the
\* portfolio holds two positions, and at some observation its value differs
\* from its cash and its profit is not 0.
C19_Witness ==
    /\ lastOp.name = "updatePosition"
    /\ ~lastOp.thrown
    /\ lastOp.count >= 3
    /\ Len(book.positions) = 2
    /\ \E data \in ObservationPool :
          /\ ~GetTotalValueThrows(book, data)
          /\ GetTotalValue(book, data) # book.cash
          /\ GetTotalPnL(book, data) # 0

\* C20: addPosition, removePosition with a valid index and updatePosition
\* never change cash; addCash and removeCash never change the positions;
\* removeCash(a) is never refused and leaves cash = old cash - a, negative or
\* not; removePosition(i) removes exactly the i-th position and keeps the
\* others in their order.
C20_MutatorsAreSeparable ==
    LET old == lastOp.before
    IN  /\ lastOp.name \in {"addPosition", "removePosition", "updatePosition"}
              => book.cash = old.cash
        /\ lastOp.name \in {"addCash", "removeCash"} => book.positions = old.positions
        /\ lastOp.name = "removeCash"
              => (~lastOp.thrown /\ book.cash = old.cash - lastOp.amount)
        /\ (lastOp.name = "removePosition" /\ lastOp.index \in 1..Len(old.positions))
              => /\ ~lastOp.thrown
                 /\ Len(book.positions) = Len(old.positions) - 1
                 /\ \A n \in 1..Len(book.positions) :
                       book.positions[n] =
                          old.positions[IF n < lastOp.index THEN n ELSE n + 1]

\* C20 witness: removeCash took a portfolio with positions below zero cash.
C20_Witness ==
    /\ lastOp.name = "removeCash"
    /\ lastOp.before.cash >= 0
    /\ book.cash < 0
    /\ book.positions # <<>>

\* The call opened a position in processSignal.
OpenedIn(c) ==
    Len(calls[c].trace.afterSignal.portfolio.positions)
        = Len(calls[c].trace.afterUpdate.portfolio.positions) + 1

\* The trade the engine appended for call c, if it appended one: the trades
\* are appended in call order, one per completed call that changed the number
\* of positions.
CountChanged(c) ==
    calls[c].status = "ok"
       /\ GetPositionCount(calls[c].after.portfolio)
             # GetPositionCount(calls[c].before.portfolio)
TradeIndexOf(c) == Cardinality({d \in 1..c : CountChanged(d)})

\* C25: with transaction costs enabled, every open charges
\* cost = per-trade cost + percentage x trade value on top of the trade value
\* (a BUY open lowers cash by value + cost, a SELL open raises it by
\* value - cost), and the trade the engine records for the call carries that
\* cost.
C25_OpensChargeCosts ==
    params.includeTransactionCosts =>
    \A c \in 1..Len(calls) :
        LET t == calls[c].trace
            value == CostOf(calls[c].data)
            cost == params.transactionCostPerTrade + value * params.transactionCostPercentage
            old == t.afterUpdate.portfolio.cash
            new == t.afterSignal.portfolio.cash
        IN  OpenedIn(c) =>
              /\ t.signal.type = "BUY" => new = old - (value + cost)
              /\ t.signal.type = "SELL" => new = old + (value - cost)
              /\ (CountChanged(c) /\ TradeIndexOf(c) <= Len(allTrades))
                    => allTrades[TradeIndexOf(c)].transactionCost = cost

\* C26: when updatePositions closes positions on observation obs, cash changes
\* by the sum of quantity x price(obs) over them, exactly those positions
\* leave the portfolio with the others in their order and unchanged, the
\* call does not end the process, and the days-held counters that disappear
\* are those of the closed positions' instrument ids and no others.
C26_CloseSettlesAndClears ==
    \A c \in 1..Len(calls) :
        LET old == calls[c].before
            new == calls[c].trace.afterUpdate
            data == calls[c].data
            closed == {n \in 1..Len(old.portfolio.positions) :
                          LET id == GetSymbol(old.portfolio.positions[n].instrument)
                          IN  id \in DOMAIN old.daysInPosition
                                 /\ old.daysInPosition[id] + 1 >= old.holdingPeriod}
            kept == SelectSeq([n \in 1..Len(old.portfolio.positions) |->
                                  [n |-> n, pos |-> old.portfolio.positions[n]]],
                              LAMBDA e : e.n \notin closed)
        IN  closed # {} =>
              /\ calls[c].status # "crash"
              /\ new.portfolio.positions = [n \in 1..Len(kept) |-> kept[n].pos]
              /\ new.portfolio.cash =
                    old.portfolio.cash
                       + SeqSum([n \in 1..Len(old.portfolio.positions) |->
                                    IF n \in closed
                                    THEN old.portfolio.positions[n].quantity
                                            * Price(old.portfolio.positions[n].instrument, data)
                                    ELSE 0])
              /\ DOMAIN new.daysInPosition =
                    DOMAIN old.daysInPosition
                       \ {GetSymbol(old.portfolio.positions[n].instrument) : n \in closed}

\* C28: the cost |q| x price of every position processSignal opens is at most
\* MaxRiskPercent per cent of the cash available when the signal is processed.
C28_OpenWithinRiskCap ==
    \A c \in 1..Len(calls) :
        OpenedIn(c) =>
            100 * CostOf(calls[c].data)
               <= MaxRiskPercent * calls[c].trace.afterUpdate.portfolio.cash

\* C29: applyHedge changes only the position tagged as a hedge and cash: the
\* positions not tagged as a hedge, a stock position in the observation's
\* symbol among them, are the same, in the same order and with the same
\* quantities, before and after the call.
C29_HedgeTouchesOnlyHedgePosition ==
    lastOp.name = "applyHedge" =>
        SelectSeq(book.positions, LAMBDA pos : ~pos.isHedge)
           = SelectSeq(lastOp.before.positions, LAMBDA pos : ~pos.isHedge)

\* C30: for a tolerance above zero, after applyHedge returns the aggregate
\* delta at the observation is within the tolerance of the target delta, and
\* applyHedge applied again at the same observation changes nothing.
C30_HedgeReachesTarget ==
    (lastOp.name = "applyHedge" /\ lastOp.amount > 0) =>
        /\ Abs(CalculateDelta(book, lastOp.data) - lastOp.target) <= lastOp.amount
        /\ ApplyHedge(book, lastOp.data, lastOp.target, lastOp.amount).pf = book

\* C30 witness: applyHedge with a tolerance above zero changed a portfolio
\* whose delta was further from the target than the tolerance, once by
\* changing a position and once by adding or removing one.
C30_Witness ==
    /\ lastOp.name = "applyHedge"
    /\ lastOp.amount > 0
    /\ Abs(CalculateDelta(lastOp.before, lastOp.data) - lastOp.target) > lastOp.amount
    /\ book # lastOp.before
    /\ Len(book.positions) # Len(lastOp.before.positions)
    /\ lastOp.before.positions # <<>>

\* A result built anew from the curve and the trades r holds now.
Fresh(r) == BacktestResult(r.equityCurve, r.trades)

\* x is a number: a ratio, an irrational value or +infinity, not NaN and not
\* -infinity.
IsDefinedNumber(x) == "fn" \in DOMAIN x \/ x.d # 0 \/ x.n = 1

\* x <= y on doubles.
AtMost(x, y) == ~IsNaN(x) /\ ~IsNaN(y) /\ ~Less(y, x)

\* C21: after any sequence of setEquityCurve, setTrades, addTrade and accessor
\* calls, each of the eight metric accessors and getAllMetrics returns what
\* it returns on a result built anew from the current equity curve and the
\* current trade list: no value computed from a replaced curve or trade list
\* is returned.
C21_MetricsFromCurrentState ==
    /\ \A n \in 1..Len(MetricNames) :
          LET now == MetricAccessor(res, MetricNames[n])
              anew == MetricAccessor(Fresh(res), MetricNames[n])
          IN  now.threw = anew.threw /\ now.value = anew.value
    /\ GetAllMetrics(res).threw = GetAllMetrics(Fresh(res)).threw
    /\ GetAllMetrics(res).value = GetAllMetrics(Fresh(res)).value

\* C22: no metric accessor throws; on an empty equity curve each returns 0,
\* and on a non-empty curve (one point, constant values, zero values
\* included) with any trade list each returns a number, 0 or +infinity in
\* the degenerate cases, never NaN.
C22_AccessorsNeverThrow ==
    /\ ~GetAllMetrics(res).threw
    /\ \A n \in 1..Len(MetricNames) :
          LET a == MetricAccessor(res, MetricNames[n])
          IN  /\ ~a.threw
              /\ res.equityCurve.values = <<>> => a.value = Zero
              /\ IsDefinedNumber(a.value)

\* C23: for every equity curve a result holds, getDrawdownSeries returns one
\* value per curve point, every value is <= 0, and the largest absolute value
\* of the series is what getMaxDrawdown returns.
C23_DrawdownSeriesMatchesMaximum ==
    LET series == GetDrawdownSeries(res)
        maximum == MetricAccessor(res, "max_drawdown")
        values == series.value.values
    IN  /\ ~series.threw
        /\ ~maximum.threw
        /\ Len(values) = Len(res.equityCurve.values)
        /\ \A n \in 1..Len(values) : AtMost(values[n], Zero)
        /\ IF values = <<>> THEN maximum.value = Zero
           ELSE /\ \E n \in 1..Len(values) : Magnitude(values[n]) = maximum.value
                /\ \A n \in 1..Len(values) : AtMost(Magnitude(values[n]), maximum.value)

\* C24: getProfitFactor is +infinity when there are trades and each has a
\* positive net value, 0 when there are no trades, and otherwise the sum of
\* the positive net values over the sum of the absolute non-positive net
\* values (where that sum is not 0); getWinRate is the fraction of trades
\* with a positive net value, 0 when there are no trades.
C24_ProfitFactorAndWinRate ==
    LET profitFactor == MetricAccessor(res, "profit_factor")
        winRate == MetricAccessor(res, "win_rate")
        nets == [n \in 1..Len(res.trades) |-> GetNetValue(res.trades[n])]
        wins == {n \in 1..Len(nets) : nets[n] > 0}
        gains == SeqSum([n \in 1..Len(nets) |-> IF nets[n] > 0 THEN nets[n] ELSE 0])
        losses == SeqSum([n \in 1..Len(nets) |-> IF nets[n] > 0 THEN 0 ELSE -nets[n]])
    IN  /\ ~profitFactor.threw
        /\ ~winRate.threw
        /\ winRate.value = Ratio(Cardinality(wins), Max(Len(nets), 1))
        /\ nets = <<>> => profitFactor.value = Zero
        /\ (nets # <<>> /\ Cardinality(wins) = Len(nets)) => profitFactor.value = Infinity
        /\ losses > 0 => profitFactor.value = Ratio(gains, losses)

\* The drawdown series as calculateDrawdownSeries computes it, whether point n
\* is above the threshold and whether the curve is back at its peak there.
SeriesOf(r) == CalculateDrawdownSeries(r).values
AboveThreshold(r, n) == Less(SeriesOf(r)[n], Ratio(-DrawdownThresholdPercent, 100))
Recovered(r, n) == AtMost(Zero, SeriesOf(r)[n])

\* The index of timestamp ts in the curve of r.
PointOf(r, ts) ==
    CHOOSE n \in 1..Len(r.equityCurve.timestamps) : r.equityCurve.timestamps[n] = ts

\* C27 as stated: getDrawdownPeriods returns the maximal runs of consecutive
\* points whose drawdown is above 1%, in order: a period starts at the first
\* point of a run and ends where the run ends (its last point, or the point
\* after it at which the drawdown is no longer above 1%); a run that reaches
\* the end of the curve ends at the last timestamp.
C27_PeriodsAreRunsAboveThreshold ==
    LET N == Len(res.equityCurve.values)
        times == res.equityCurve.timestamps
        starts == SortedVector({n \in 1..N : AboveThreshold(res, n)
                                                /\ (n = 1 \/ ~AboveThreshold(res, n - 1))})
        LastOfRun(s) == CHOOSE e \in s..N :
                            /\ \A n \in s..e : AboveThreshold(res, n)
                            /\ (e = N \/ ~AboveThreshold(res, e + 1))
        periods == GetDrawdownPeriods(res)
    IN  /\ Len(periods) = Len(starts)
        /\ \A p \in 1..Len(periods) :
              /\ periods[p][1] = times[starts[p]]
              /\ periods[p][2] \in {times[LastOfRun(starts[p])],
                                    times[IF LastOfRun(starts[p]) = N THEN N
                                          ELSE LastOfRun(starts[p]) + 1]}

\* C27 amended: a period starts at a point whose drawdown is above 1% when
\* every earlier such point has a later point before it at which the curve is
\* back at its running peak (drawdown 0); it ends at the first later point
\* at which the curve is back at its peak, whatever the drawdowns in
\* between, and at the last timestamp when there is no such point.
C27_PeriodsEndAtRecovery ==
    LET N == Len(res.equityCurve.values)
        times == res.equityCurve.timestamps
        starts == SortedVector({n \in 1..N :
                     /\ AboveThreshold(res, n)
                     /\ \A j \in 1..(n - 1) :
                           AboveThreshold(res, j)
                              => \E m \in (j + 1)..(n - 1) : Recovered(res, m)})
        EndOf(s) == IF \E m \in (s + 1)..N : Recovered(res, m)
                    THEN CHOOSE m \in (s + 1)..N :
                            Recovered(res, m) /\ \A j \in (s + 1)..(m - 1) : ~Recovered(res, j)
                    ELSE N
    IN  GetDrawdownPeriods(res) =
           [p \in 1..Len(starts) |-> <<times[starts[p]], times[EndOf(starts[p])]>>]

\* C27 witness: getDrawdownPeriods was called on a curve with a period that
\* contains a point whose drawdown is not above 1%, and that ends at a point
\* where the curve is back at its peak.
C27_Witness ==
    /\ resOp.name = "getDrawdownPeriods"
    /\ \E p \in 1..Len(GetDrawdownPeriods(res)) :
          LET first == PointOf(res, GetDrawdownPeriods(res)[p][1])
              last == PointOf(res, GetDrawdownPeriods(res)[p][2])
          IN  /\ \E n \in (first + 1)..(last - 1) : ~AboveThreshold(res, n)
              /\ Recovered(res, last)

====
